---- MODULE Spec2Model ----
(***************************************************************************)
(* gem5 -> McPAT converter (src/mcpat_converter/custom_converter.py and    *)
(* src/mcpat_converter/backup.py).  Both files are stand-alone scripts     *)
(* with the same pipeline: parse_stats, parse_config, create_mcpat_xml,    *)
(* write mcpat_output.xml.  `variant' selects the script that runs.        *)
(*                                                                         *)
(* Text is modelled by what the code does with it: a token of the stats    *)
(* file is a sequence of one-character strings, a Python float is a        *)
(* decimal [m, e] (m * 10^e, m without trailing zeros), str() and int()    *)
(* compute digits, a JSON value carries its type tag, and the XML tree is  *)
(* the document-order sequence of its elements with parent indices.        *)
(***************************************************************************)
EXTENDS Integers, Sequences, FiniteSets, TLC

VARIABLES
  variant,     \* "custom" (custom_converter.py) or "backup" (backup.py)
  argc,        \* len(sys.argv)
  statsFile,   \* the stats file: NoFile, or its lines, each a sequence of tokens
  configFile,  \* the config file: NoFile, or the JSON value it holds (NotJson if none)
  pc,          \* position of the running script
  stats,       \* the StatTable returned by parse_stats
  config,      \* the value returned by parse_config
  xml,         \* the element tree that create_mcpat_xml returned
  stdout,      \* the messages printed so far
  stderr,      \* the messages written to sys.stderr so far
  outFile,     \* mcpat_output.xml: NoFile, or the tree written to it
  exitStatus,  \* exit status of the process, -1 while it runs
  ret          \* the last direct call of get_stat_value: arguments, result, lines printed

vars == <<variant, argc, statsFile, configFile, pc, stats, config, xml,
          stdout, stderr, outFile, exitStatus, ret>>

Variants == {"custom", "backup"}

(***************************************************************************)
(* Characters and tokens                                                   *)
(***************************************************************************)
Digits == <<"0", "1", "2", "3", "4", "5", "6", "7", "8", "9">>

\* the character class \d
DigitChars == {Digits[d] : d \in 1..10}

DigitVal(c) == (CHOOSE d \in 1..10 : Digits[d] = c) - 1

Letters == {"a", "b", "c", "d", "e", "f", "g", "h", "i", "j", "k", "l", "m",
            "n", "o", "p", "q", "r", "s", "t", "u", "v", "w", "x", "y", "z",
            "A", "B", "C", "D", "E", "F", "G", "H", "I", "J", "K", "L", "M",
            "N", "O", "P", "Q", "R", "S", "T", "U", "V", "W", "X", "Y", "Z"}

\* the character class [a-zA-Z0-9_.:-] of the key group
KeyChars == Letters \cup DigitChars \cup {"_", ".", ":", "-"}

\* the character class [\d.] that opens the value group
NumChars == DigitChars \cup {"."}

RECURSIVE Join(_)
\* the string spelled by a sequence of characters
Join(cs) == IF cs = <<>> THEN "" ELSE cs[1] \o Join(Tail(cs))

RECURSIVE RunLen(_, _, _)
\* length of the longest run of characters of class cls starting at s[p]
RunLen(cls, s, p) ==
  IF p <= Len(s) /\ s[p] \in cls THEN 1 + RunLen(cls, s, p + 1) ELSE 0

RECURSIVE NatOf(_, _, _)
\* the number written by the n digits of s that end at position p + n - 1
NatOf(s, p, n) ==
  IF n = 0 THEN 0 ELSE 10 * NatOf(s, p, n - 1) + DigitVal(s[p + n - 1])

\* s contains n consecutive occurrences of character c ('ccc' in s)
HasRun(s, c, n) ==
  \E p \in 1..Len(s) : RunLen({c}, s, p) >= n

\* str.startswith for tokens
StartsWith(s, prefix) ==
  Len(s) >= Len(prefix) /\ SubSeq(s, 1, Len(prefix)) = prefix

(***************************************************************************)
(* Python floats, int(), str()                                             *)
(***************************************************************************)
RECURSIVE Norm(_, _)
\* the float m * 10^e
Norm(m, e) ==
  IF m = 0 THEN [m |-> 0, e |-> 0]
  ELSE IF m % 10 = 0 THEN Norm(m \div 10, e + 1)
  ELSE [m |-> m, e |-> e]

RECURSIVE Pow10(_)
Pow10(n) == IF n = 0 THEN 1 ELSE 10 * Pow10(n - 1)

\* float(n) for a Python int n
FloatOfInt(n) == Norm(n, 0)

\* int(x): truncation toward zero
IntOfFloat(x) ==
  IF x.e >= 0 THEN x.m * Pow10(x.e)
  ELSE IF x.m >= 0 THEN x.m \div Pow10(0 - x.e)
  ELSE 0 - ((0 - x.m) \div Pow10(0 - x.e))

\* x + y
FloatAdd(x, y) ==
  LET e == IF x.e < y.e THEN x.e ELSE y.e
  IN  Norm(x.m * Pow10(x.e - e) + y.m * Pow10(y.e - e), e)

\* x / 10^k
FloatDivPow10(x, k) == Norm(x.m, x.e - k)

RECURSIVE NatStr(_)
\* str(n) for n >= 0
NatStr(n) == IF n < 10 THEN Digits[n + 1] ELSE NatStr(n \div 10) \o Digits[(n % 10) + 1]

\* str(n) for a Python int
IntStr(n) == IF n < 0 THEN "-" \o NatStr(0 - n) ELSE NatStr(n)

RECURSIVE ZeroPad(_, _)
\* the digits of n, left-padded with zeros to width w
ZeroPad(n, w) == IF w <= 0 THEN "" ELSE ZeroPad(n \div 10, w - 1) \o Digits[(n % 10) + 1]

RECURSIVE NumDigits(_)
\* the number of decimal digits of n >= 0
NumDigits(n) == IF n < 10 THEN 1 ELSE 1 + NumDigits(n \div 10)

\* str(x) for a float: repr() prints positional notation while the exponent
\* of the leading digit is in -4..15, and d.ddde+XX outside
FloatStr(x) ==
  LET a   == IF x.m < 0 THEN 0 - x.m ELSE x.m
      sg  == IF x.m < 0 THEN "-" ELSE ""
      nd  == NumDigits(a)
      x10 == nd + x.e - 1
      ax  == IF x10 < 0 THEN 0 - x10 ELSE x10
  IN  IF a # 0 /\ (x10 < -4 \/ x10 >= 16)
      THEN sg \o NatStr(a \div Pow10(nd - 1))
              \o (IF nd > 1 THEN "." \o ZeroPad(a % Pow10(nd - 1), nd - 1) ELSE "")
              \o (IF x10 < 0 THEN "e-" ELSE "e+")
              \o (IF ax < 10 THEN "0" ELSE "") \o NatStr(ax)
      ELSE IF x.e >= 0 THEN sg \o NatStr(a * Pow10(x.e)) \o ".0"
      ELSE sg \o NatStr(a \div Pow10(0 - x.e)) \o "." \o ZeroPad(a % Pow10(0 - x.e), 0 - x.e)

NoFloat == [ok |-> FALSE]

\* float(tok), once the parts are located: ni integer digits from p0, nf
\* fraction digits from p2, and ne exponent digits from p5 when hasE
FloatValue(tok, p0, ni, p2, nf, hasE, eneg, p5, ne) ==
  IF ni + nf >= 1 /\ (hasE => ne >= 1) /\ p5 + ne = Len(tok) + 1
  THEN [ok |-> TRUE,
        val |-> Norm((IF Len(tok) >= 1 /\ tok[1] = "-" THEN -1 ELSE 1)
                       * (NatOf(tok, p0, ni) * Pow10(nf) + NatOf(tok, p2, nf)),
                     (IF eneg THEN 0 - NatOf(tok, p5, ne) ELSE NatOf(tok, p5, ne)) - nf)]
  ELSE NoFloat

\* the exponent part, from p3 on: [e|E [sign] digits]
FloatExponent(tok, p0, ni, p2, nf, p3) ==
  LET hasE == p3 <= Len(tok) /\ tok[p3] \in {"e", "E"}
      p4   == IF hasE THEN p3 + 1 ELSE p3
      esg  == hasE /\ p4 <= Len(tok) /\ tok[p4] \in {"+", "-"}
      p5   == IF esg THEN p4 + 1 ELSE p4
  IN  FloatValue(tok, p0, ni, p2, nf, hasE, esg /\ tok[p4] = "-", p5,
                 IF hasE THEN RunLen(DigitChars, tok, p5) ELSE 0)

\* the fraction part, from p1 on: [. digits]
FloatFraction(tok, p0, ni, p1) ==
  LET dot == p1 <= Len(tok) /\ tok[p1] = "."
      p2  == IF dot THEN p1 + 1 ELSE p1
      nf  == IF dot THEN RunLen(DigitChars, tok, p2) ELSE 0
  IN  FloatExponent(tok, p0, ni, p2, nf, p2 + nf)

\* the integer part, from p0 on: digits
FloatInteger(tok, p0, ni) == FloatFraction(tok, p0, ni, p0 + ni)

\* float(tok): [sign] digits [. digits] [e|E [sign] digits], nothing after it
ParseFloat(tok) ==
  FloatInteger(tok, IF Len(tok) >= 1 /\ tok[1] \in {"+", "-"} THEN 2 ELSE 1,
               RunLen(DigitChars, tok,
                      IF Len(tok) >= 1 /\ tok[1] \in {"+", "-"} THEN 2 ELSE 1))

(***************************************************************************)
(* Stats Parser                                                            *)
(***************************************************************************)
EmptyTable == <<>>

\* stats[key] = value
Put(table, key, value) ==
  [k \in (DOMAIN table) \cup {key} |-> IF k = key THEN value ELSE table[k]]

\* group(2) of the pattern: [\d.]+ e? [-+]? \d*, each part greedy
ValueGroup(tok) ==
  LET n1 == RunLen(NumChars, tok, 1)
      p1 == 1 + n1
      p2 == IF p1 <= Len(tok) /\ tok[p1] = "e" THEN p1 + 1 ELSE p1
      p3 == IF p2 <= Len(tok) /\ tok[p2] \in {"-", "+"} THEN p2 + 1 ELSE p2
      p4 == p3 + RunLen(DigitChars, tok, p3)
  IN  SubSeq(tok, 1, p4 - 1)

\* re.match(r'^\s*([a-zA-Z0-9_.:-]+)\s+([\d.]+e?[-+]?\d*)\s*', line) succeeds:
\* the first token consists of key characters and is followed, after
\* whitespace, by a token that opens with a digit or a dot
RegexMatch(line) ==
  /\ Len(line) >= 2
  /\ RunLen(KeyChars, line[1], 1) = Len(line[1])
  /\ RunLen(NumChars, line[2], 1) >= 1

\* custom_converter.py: the body of the loop of parse_stats for one line
custom_parse_line(table, line) ==
  IF line = <<>> \/ \E t \in 1..Len(line) : HasRun(line[t], "-", 10)
  THEN table
  ELSE IF RegexMatch(line)
       THEN LET f == ParseFloat(ValueGroup(line[2]))
            IN  IF f.ok THEN Put(table, Join(line[1]), f.val) ELSE table
       ELSE table

\* backup.py: the body of the loop of parse_stats for one line
backup_parse_line(table, line) ==
  IF \/ line = <<>>
     \/ \E t \in 1..Len(line) : HasRun(line[t], "-", 3)
     \/ StartsWith(line[1], <<"E", "n", "d">>)
  THEN table
  ELSE IF Len(line) >= 2 THEN Put(table, Join(line[1]), line[2]) ELSE table

RECURSIVE ParseLines(_, _, _)
\* the for loop over the lines of the file
ParseLines(v, lines, table) ==
  IF lines = <<>> THEN table
  ELSE ParseLines(v, Tail(lines),
         IF v = "custom" THEN custom_parse_line(table, Head(lines))
         ELSE backup_parse_line(table, Head(lines)))

\* custom_converter.py parse_stats
parse_stats(lines) == ParseLines("custom", lines, EmptyTable)

\* backup.py parse_stats
backup_parse_stats(lines) == ParseLines("backup", lines, EmptyTable)

ParseStatsOf(v, lines) ==
  IF v = "custom" THEN parse_stats(lines) ELSE backup_parse_stats(lines)

(***************************************************************************)
(* Stat Resolver                                                           *)
(***************************************************************************)
stats_map ==
  [total_cycles |-> <<"system.cpu.numCycles", "system.cpu_clk_domain.num_cycles">>,
   committedInsts |-> <<"system.cpu.committedInsts", "sim_insts">>,
   int_insts |-> <<"system.cpu.committed_int_insts">>,
   fp_insts |-> <<"system.cpu.committed_fp_insts">>,
   branches |-> <<"system.cpu.branches">>,
   branchMispredicts |-> <<"system.cpu.branchMispredictions">>]
  @@ ("icache.ReadReq::total" :> <<"system.l1icaches.ReadReq::total">>)
  @@ ("icache.ReadReq::miss" :> <<"system.l1icaches.ReadReq::miss">>)
  @@ ("dcache.ReadReq::total" :> <<"system.l1dcaches.ReadReq::total">>)
  @@ ("dcache.ReadReq::miss" :> <<"system.l1dcaches.ReadReq::miss">>)
  @@ ("dcache.WriteReq::total" :> <<"system.l1dcaches.WriteReq::total">>)
  @@ ("dcache.WriteReq::miss" :> <<"system.l1dcaches.WriteReq::miss">>)
  @@ ("l2cache.ReadReq::total" :> <<"system.l2cache.ReadReq::total">>)
  @@ ("l2cache.ReadReq::miss" :> <<"system.l2cache.ReadReq::miss">>)
  @@ ("l2cache.WriteReq::total" :> <<"system.l2cache.WriteReq::total">>)
  @@ ("l2cache.WriteReq::miss" :> <<"system.l2cache.WriteReq::miss">>)

\* stats_map.get(key, [])
Aliases(key) == IF key \in DOMAIN stats_map THEN stats_map[key] ELSE <<>>

\* print(f"Warning: Stat '{key}' not found. Returning default value '{default}'.")
StatWarning(key, default) ==
  [text |-> "Warning: Stat not found. Returning default value.",
   key |-> key, default |-> IntStr(default)]

\* the aliases of key that are in the table, by position in the alias list
AliasHits(table, key) == {i \in 1..Len(Aliases(key)) : Aliases(key)[i] \in DOMAIN table}

\* get_stat_value with the alias loop ahead of the direct lookup
get_stat_value_alias_first(table, key, default) ==
  IF AliasHits(table, key) # {}
  THEN LET first == CHOOSE i \in AliasHits(table, key) :
                      \A j \in AliasHits(table, key) : i <= j
       IN  [value |-> table[Aliases(key)[first]], out |-> <<>>, stats |-> table]
  ELSE IF key \in DOMAIN table
       THEN [value |-> table[key], out |-> <<>>, stats |-> table]
       ELSE [value |-> FloatOfInt(default), out |-> <<StatWarning(key, default)>>, stats |-> table]

\* get_stat_value with the warning printed ahead of the alias loop
get_stat_value_early_warning(table, key, default) ==
  IF key \in DOMAIN table
  THEN [value |-> table[key], out |-> <<>>, stats |-> table]
  ELSE IF AliasHits(table, key) # {}
       THEN LET first == CHOOSE i \in AliasHits(table, key) :
                           \A j \in AliasHits(table, key) : i <= j
            IN  [value |-> table[Aliases(key)[first]], out |-> <<StatWarning(key, default)>>, stats |-> table]
       ELSE [value |-> FloatOfInt(default), out |-> <<StatWarning(key, default)>>, stats |-> table]

\* get_stat_value that keeps the default it falls back to in the dict
\* (stats.setdefault(key, float(default)))
get_stat_value_inserting(table, key, default) ==
  IF key \in DOMAIN table
  THEN [value |-> table[key], out |-> <<>>, stats |-> table]
  ELSE IF AliasHits(table, key) # {}
       THEN LET first == CHOOSE i \in AliasHits(table, key) :
                           \A j \in AliasHits(table, key) : i <= j
            IN  [value |-> table[Aliases(key)[first]], out |-> <<>>, stats |-> table]
       ELSE [value |-> FloatOfInt(default), out |-> <<StatWarning(key, default)>>,
             stats |-> Put(table, key, FloatOfInt(default))]

\* custom_converter.py get_stat_value: the value returned, the lines printed
\* and the dict `stats' as the call leaves it (the dict is passed by reference)
get_stat_value(table, key, default) ==
  IF key \in DOMAIN table
  THEN [value |-> table[key], out |-> <<>>, stats |-> table]
  ELSE IF AliasHits(table, key) # {}
       THEN LET first == CHOOSE i \in AliasHits(table, key) :
                           \A j \in AliasHits(table, key) : i <= j
            IN  [value |-> table[Aliases(key)[first]], out |-> <<>>, stats |-> table]
       ELSE [value |-> FloatOfInt(default), out |-> <<StatWarning(key, default)>>, stats |-> table]

\* backup.py get_stat_value: float(stats.get(key, default)), the default on
\* ValueError.  The default is a Python int, given here by its decimal
\* [m, e]; every caller uses the result through int(), + or /, where the
\* int and its float agree.  stats is the dict as the call leaves it.
backup_get_stat_value(table, key, default) ==
  IF key \in DOMAIN table
  THEN LET f == ParseFloat(table[key])
       IN  [value |-> IF f.ok THEN f.val ELSE default, out |-> <<>>, stats |-> table]
  ELSE [value |-> default, out |-> <<>>, stats |-> table]

(***************************************************************************)
(* Python results, JSON values, dict and list access                       *)
(***************************************************************************)
Ok(v) == [exc |-> "none", val |-> v]

Raise(e) == [exc |-> e]

JInt(n) == [t |-> "int", v |-> n]

JStr(cs) == [t |-> "str", v |-> cs]

JNull == [t |-> "null"]

JList(seq) == [t |-> "list", v |-> seq]

JDict(f) == [t |-> "dict", v |-> f]

\* In the three accessors below r is the result of the expression that is
\* accessed: when that expression raised, the access is never evaluated.

\* r.get(key, default)
DictGet(r, key, default) ==
  IF r.exc # "none" THEN r
  ELSE IF r.val.t # "dict" THEN Raise("AttributeError")
  ELSE IF key \in DOMAIN r.val.v THEN Ok(r.val.v[key]) ELSE Ok(default)

\* r[key] for a string key
GetKey(r, key) ==
  IF r.exc # "none" THEN r
  ELSE IF r.val.t = "dict"
       THEN IF key \in DOMAIN r.val.v THEN Ok(r.val.v[key]) ELSE Raise("KeyError")
  ELSE Raise("TypeError")

\* r[i] for an index i >= 0
GetIdx(r, i) ==
  IF r.exc # "none" THEN r
  ELSE IF r.val.t = "list"
       THEN IF i < Len(r.val.v) THEN Ok(r.val.v[i + 1]) ELSE Raise("IndexError")
  ELSE IF r.val.t = "str"
       THEN IF i < Len(r.val.v) THEN Ok(JStr(<<r.val.v[i + 1]>>)) ELSE Raise("IndexError")
  ELSE IF r.val.t = "dict" THEN Raise("KeyError")
  ELSE Raise("TypeError")

\* s.replace(c, '')
Remove(cs, c) == SelectSeq(cs, LAMBDA x : x # c)

\* int(s) for a string: [sign] digits
ParseInt(cs) ==
  LET p0 == IF Len(cs) >= 1 /\ cs[1] \in {"+", "-"} THEN 2 ELSE 1
      n  == RunLen(DigitChars, cs, p0)
  IN  IF n >= 1 /\ p0 + n = Len(cs) + 1
      THEN Ok(IF cs[1] = "-" THEN 0 - NatOf(cs, p0, n) ELSE NatOf(cs, p0, n))
      ELSE Raise("ValueError")

\* int(v) for a JSON value
PyInt(v) ==
  IF v.t = "int" THEN Ok(v.v)
  ELSE IF v.t = "str" THEN ParseInt(v.v)
  ELSE Raise("TypeError")

\* str(v) / f"{v}" for a JSON scalar
PyStr(v) ==
  IF v.t = "int" THEN IntStr(v.v)
  ELSE IF v.t = "str" THEN Join(v.v)
  ELSE "None"

\* the int(s) of a decimal string s: the number below `limit' that str() prints as s
IntOfStr(s, limit) ==
  IF \E n \in 0..limit : NatStr(n) = s
  THEN Ok(CHOOSE n \in 0..limit : NatStr(n) = s)
  ELSE Raise("ValueError")

(***************************************************************************)
(* Element trees                                                           *)
(***************************************************************************)
N(tag, name, id, value, parent) ==
  [tag |-> tag, name |-> name, id |-> id, value |-> value, parent |-> parent]

mcpat_template == <<
  N("component", "root", "root", "", 0),
  N("component", "system", "system", "", 1),
  N("param", "number_of_cores", "", "1", 2),
  N("param", "number_of_L1Directories", "", "0", 2),
  N("param", "number_of_L2Directories", "", "0", 2),
  N("param", "number_of_L2s", "", "1", 2),
  N("param", "Private_L2", "", "0", 2),
  N("param", "number_of_L3s", "", "0", 2),
  N("param", "number_of_NoCs", "", "0", 2),
  N("param", "homogeneous_cores", "", "1", 2),
  N("param", "homogeneous_L2s", "", "1", 2),
  N("param", "homogeneous_L1Directories", "", "0", 2),
  N("param", "homogeneous_L2Directories", "", "0", 2),
  N("param", "homogeneous_L3s", "", "0", 2),
  N("param", "homogeneous_ccs", "", "0", 2),
  N("param", "core_tech_node", "", "40", 2),
  N("param", "target_core_clockrate", "", "1000.0", 2),
  N("param", "temperature", "", "340", 2),
  N("param", "number_cache_levels", "", "2", 2),
  N("param", "interconnect_projection_type", "", "1", 2),
  N("param", "device_type", "", "2", 2),
  N("param", "longer_channel_device", "", "1", 2),
  N("param", "Embedded", "", "1", 2),
  N("param", "opt_clockrate", "", "1", 2),
  N("param", "machine_bits", "", "32", 2),
  N("param", "virtual_address_width", "", "32", 2),
  N("param", "physical_address_width", "", "32", 2),
  N("param", "virtual_memory_page_size", "", "4096", 2),
  N("stat", "total_cycles", "", "100000", 2),
  N("stat", "idle_cycles", "", "0", 2),
  N("stat", "busy_cycles", "", "100000", 2),
  N("component", "core0", "system.core0", "", 2),
  N("param", "clock_rate", "", "1000.0", 32),
  N("param", "opt_local", "", "0", 32),
  N("param", "instruction_length", "", "32", 32),
  N("param", "opcode_width", "", "7", 32),
  N("param", "x86", "", "0", 32),
  N("param", "micro_opcode_width", "", "8", 32),
  N("param", "machine_type", "", "0", 32),
  N("param", "number_hardware_threads", "", "1", 32),
  N("param", "fetch_width", "", "2", 32),
  N("param", "number_instruction_fetch_ports", "", "1", 32),
  N("param", "decode_width", "", "2", 32),
  N("param", "issue_width", "", "4", 32),
  N("param", "peak_issue_width", "", "7", 32),
  N("param", "commit_width", "", "4", 32),
  N("param", "fp_issue_width", "", "1", 32),
  N("param", "prediction_width", "", "1", 32),
  N("param", "pipelines_per_core", "", "1,1", 32),
  N("param", "pipeline_depth", "", "8,8", 32),
  N("param", "ALU_per_core", "", "3", 32),
  N("param", "MUL_per_core", "", "1", 32),
  N("param", "FPU_per_core", "", "1", 32),
  N("param", "instruction_buffer_size", "", "32", 32),
  N("param", "decoded_stream_buffer_size", "", "16", 32),
  N("param", "instruction_window_scheme", "", "0", 32),
  N("param", "instruction_window_size", "", "20", 32),
  N("param", "fp_instruction_window_size", "", "15", 32),
  N("param", "ROB_size", "", "0", 32),
  N("param", "archi_Regs_IRF_size", "", "32", 32),
  N("param", "archi_Regs_FRF_size", "", "32", 32),
  N("param", "phy_Regs_IRF_size", "", "64", 32),
  N("param", "phy_Regs_FRF_size", "", "64", 32),
  N("param", "rename_scheme", "", "0", 32),
  N("param", "checkpoint_depth", "", "1", 32),
  N("param", "register_windows_size", "", "0", 32),
  N("param", "LSU_order", "", "inorder", 32),
  N("param", "store_buffer_size", "", "4", 32),
  N("param", "load_buffer_size", "", "0", 32),
  N("param", "memory_ports", "", "1", 32),
  N("param", "RAS_size", "", "4", 32),
  N("stat", "total_instructions", "", "400000", 32),
  N("stat", "int_instructions", "", "200000", 32),
  N("stat", "fp_instructions", "", "100000", 32),
  N("stat", "branch_instructions", "", "100000", 32),
  N("stat", "branch_mispredictions", "", "0", 32),
  N("stat", "load_instructions", "", "0", 32),
  N("stat", "store_instructions", "", "50000", 32),
  N("stat", "committed_instructions", "", "400000", 32),
  N("stat", "committed_int_instructions", "", "200000", 32),
  N("stat", "committed_fp_instructions", "", "100000", 32),
  N("stat", "pipeline_duty_cycle", "", "1", 32),
  N("stat", "total_cycles", "", "100000", 32),
  N("stat", "idle_cycles", "", "0", 32),
  N("stat", "busy_cycles", "", "100000", 32),
  N("stat", "ROB_reads", "", "400000", 32),
  N("stat", "ROB_writes", "", "400000", 32),
  N("stat", "rename_reads", "", "800000", 32),
  N("stat", "rename_writes", "", "400000", 32),
  N("stat", "fp_rename_reads", "", "200000", 32),
  N("stat", "fp_rename_writes", "", "100000", 32),
  N("stat", "inst_window_reads", "", "400000", 32),
  N("stat", "inst_window_writes", "", "400000", 32),
  N("stat", "inst_window_wakeup_accesses", "", "800000", 32),
  N("stat", "fp_inst_window_reads", "", "200000", 32),
  N("stat", "fp_inst_window_writes", "", "200000", 32),
  N("stat", "fp_inst_window_wakeup_accesses", "", "400000", 32),
  N("stat", "int_regfile_reads", "", "600000", 32),
  N("stat", "float_regfile_reads", "", "100000", 32),
  N("stat", "int_regfile_writes", "", "300000", 32),
  N("stat", "float_regfile_writes", "", "50000", 32),
  N("stat", "function_calls", "", "5", 32),
  N("stat", "context_switches", "", "260343", 32),
  N("stat", "ialu_accesses", "", "300000", 32),
  N("stat", "fpu_accesses", "", "100000", 32),
  N("stat", "mul_accesses", "", "200000", 32),
  N("stat", "cdb_alu_accesses", "", "300000", 32),
  N("stat", "cdb_mul_accesses", "", "200000", 32),
  N("stat", "cdb_fpu_accesses", "", "100000", 32),
  N("stat", "IFU_duty_cycle", "", "0.9", 32),
  N("stat", "BR_duty_cycle", "", "0.72", 32),
  N("stat", "LSU_duty_cycle", "", "0.71", 32),
  N("stat", "MemManU_I_duty_cycle", "", "0.9", 32),
  N("stat", "MemManU_D_duty_cycle", "", "0.71", 32),
  N("stat", "ALU_duty_cycle", "", "0.76", 32),
  N("stat", "MUL_duty_cycle", "", "0.82", 32),
  N("stat", "FPU_duty_cycle", "", "0.0", 32),
  N("stat", "ALU_cdb_duty_cycle", "", "0.76", 32),
  N("stat", "MUL_cdb_duty_cycle", "", "0.82", 32),
  N("stat", "FPU_cdb_duty_cycle", "", "0.0", 32),
  N("param", "number_of_BPT", "", "2", 32),
  N("component", "PBT", "system.core0.predictor", "", 32),
  N("param", "local_predictor_size", "", "10,3", 122),
  N("param", "local_predictor_entries", "", "4", 122),
  N("param", "global_predictor_entries", "", "4096", 122),
  N("param", "global_predictor_bits", "", "2", 122),
  N("param", "chooser_predictor_entries", "", "4096", 122),
  N("param", "chooser_predictor_bits", "", "2", 122),
  N("component", "itlb", "system.core0.itlb", "", 32),
  N("param", "number_entries", "", "64", 129),
  N("stat", "total_accesses", "", "200000", 129),
  N("stat", "total_misses", "", "4", 129),
  N("stat", "conflicts", "", "0", 129),
  N("component", "icache", "system.core0.icache", "", 32),
  N("param", "icache_config", "", "32768,64,8,1,10,10,64,0", 134),
  N("param", "buffer_sizes", "", "4, 4, 4,0", 134),
  N("stat", "read_accesses", "", "200000", 134),
  N("stat", "read_misses", "", "0", 134),
  N("stat", "conflicts", "", "0", 134),
  N("component", "dtlb", "system.core0.dtlb", "", 32),
  N("param", "number_entries", "", "64", 140),
  N("stat", "total_accesses", "", "400000", 140),
  N("stat", "total_misses", "", "4", 140),
  N("stat", "conflicts", "", "0", 140),
  N("component", "dcache", "system.core0.dcache", "", 32),
  N("param", "dcache_config", "", "32768,64,8,1,10,10,64,1", 145),
  N("param", "buffer_sizes", "", "4, 4, 4, 4", 145),
  N("stat", "read_accesses", "", "800000", 145),
  N("stat", "write_accesses", "", "27276", 145),
  N("stat", "read_misses", "", "1632", 145),
  N("stat", "write_misses", "", "183", 145),
  N("stat", "conflicts", "", "0", 145),
  N("param", "number_of_BTB", "", "2", 32),
  N("component", "BTB", "system.core0.BTB", "", 32),
  N("param", "BTB_config", "", "4096,4,2, 2, 1,1", 154),
  N("stat", "read_accesses", "", "400000", 154),
  N("stat", "write_accesses", "", "0", 154),
  N("component", "L20", "system.L20", "", 2),
  N("param", "L2_config", "", "1048576,32, 8, 8, 8, 23, 32, 1", 158),
  N("param", "buffer_sizes", "", "16, 16, 16, 16", 158),
  N("param", "clockrate", "", "3400", 158),
  N("param", "ports", "", "1,1,1", 158),
  N("param", "device_type", "", "0", 158),
  N("stat", "read_accesses", "", "200000", 158),
  N("stat", "write_accesses", "", "27276", 158),
  N("stat", "read_misses", "", "1632", 158),
  N("stat", "write_misses", "", "183", 158),
  N("stat", "conflicts", "", "0", 158),
  N("stat", "duty_cycle", "", "1.0", 158),
  N("component", "mc", "system.mc", "", 2),
  N("param", "type", "", "1", 170),
  N("param", "mc_clock", "", "400", 170),
  N("param", "peak_transfer_rate", "", "6400", 170),
  N("param", "block_size", "", "64", 170),
  N("param", "number_mcs", "", "0", 170),
  N("param", "memory_channels_per_mc", "", "1", 170),
  N("param", "number_ranks", "", "0", 170),
  N("param", "req_window_size_per_channel", "", "32", 170),
  N("param", "IO_buffer_size_per_channel", "", "32", 170),
  N("param", "databus_width", "", "128", 170),
  N("param", "addressbus_width", "", "51", 170),
  N("stat", "memory_accesses", "", "66666", 170),
  N("stat", "memory_reads", "", "33333", 170),
  N("stat", "memory_writes", "", "33333", 170),
  N("param", "withPHY", "", "1", 170)
>>

backup_mcpat_template == <<
  N("component", "root", "root", "", 0),
  N("component", "system", "system", "", 1),
  N("param", "number_of_cores", "", "1", 2),
  N("param", "number_of_L1I_caches", "", "1", 2),
  N("param", "number_of_L1D_caches", "", "1", 2),
  N("param", "number_of_L2_caches", "", "1", 2),
  N("param", "number_of_L3_caches", "", "0", 2),
  N("param", "number_of_NoC", "", "0", 2),
  N("param", "target_core_clockrate", "", "0", 2),
  N("param", "total_cycles", "", "0", 2),
  N("param", "peak_power_per_chip", "", "0", 2),
  N("param", "total_insts", "", "0", 2),
  N("param", "number_of_L1Directories", "", "0", 2),
  N("param", "homogeneous_L1Directories", "", "1", 2),
  N("component", "core", "core0", "", 2),
  N("param", "clock_rate", "", "0", 15),
  N("param", "total_inst", "", "0", 15),
  N("param", "int_inst", "", "0", 15),
  N("param", "fp_inst", "", "0", 15),
  N("param", "load_inst", "", "0", 15),
  N("param", "store_inst", "", "0", 15),
  N("param", "committed_inst", "", "0", 15),
  N("param", "committed_int_inst", "", "0", 15),
  N("param", "committed_fp_inst", "", "0", 15),
  N("param", "rob_accesses", "", "0", 15),
  N("param", "issue_queue_accesses", "", "0", 15),
  N("param", "int_regfile_reads", "", "0", 15),
  N("param", "fp_regfile_reads", "", "0", 15),
  N("param", "int_regfile_writes", "", "0", 15),
  N("param", "fp_regfile_writes", "", "0", 15),
  N("param", "rename_accesses", "", "0", 15),
  N("param", "rob_reads", "", "0", 15),
  N("param", "rob_writes", "", "0", 15),
  N("param", "L1I_hits", "", "0", 15),
  N("param", "L1I_misses", "", "0", 15),
  N("param", "L1D_hits", "", "0", 15),
  N("param", "L1D_misses", "", "0", 15),
  N("param", "L2_hits", "", "0", 15),
  N("param", "L2_misses", "", "0", 15),
  N("param", "Instruction_Fetch_Buffer_reads", "", "0", 15),
  N("param", "Instruction_Fetch_Buffer_writes", "", "0", 15),
  N("param", "ITLB_accesses", "", "0", 15),
  N("param", "ITLB_misses", "", "0", 15),
  N("param", "DTLB_accesses", "", "0", 15),
  N("param", "DTLB_misses", "", "0", 15),
  N("param", "branch_insts", "", "0", 15),
  N("param", "branch_mispredictions", "", "0", 15),
  N("component", "L1Icache", "L1_I_cache", "", 2),
  N("param", "cache_size", "", "0", 48),
  N("param", "line_size", "", "0", 48),
  N("param", "associativity", "", "0", 48),
  N("param", "bank", "", "1", 48),
  N("param", "sequential_access", "", "true", 48),
  N("param", "read_accesses", "", "0", 48),
  N("param", "write_accesses", "", "0", 48),
  N("param", "total_accesses", "", "0", 48),
  N("param", "total_reads", "", "0", 48),
  N("param", "total_writes", "", "0", 48),
  N("component", "L1Dcache", "L1_D_cache", "", 2),
  N("param", "cache_size", "", "0", 59),
  N("param", "line_size", "", "0", 59),
  N("param", "associativity", "", "0", 59),
  N("param", "bank", "", "1", 59),
  N("param", "sequential_access", "", "true", 59),
  N("param", "read_accesses", "", "0", 59),
  N("param", "write_accesses", "", "0", 59),
  N("param", "total_accesses", "", "0", 59),
  N("param", "total_reads", "", "0", 59),
  N("param", "total_writes", "", "0", 59),
  N("component", "L2cache", "L2_cache", "", 2),
  N("param", "cache_size", "", "0", 70),
  N("param", "line_size", "", "0", 70),
  N("param", "associativity", "", "0", 70),
  N("param", "bank", "", "1", 70),
  N("param", "sequential_access", "", "true", 70),
  N("param", "read_accesses", "", "0", 70),
  N("param", "write_accesses", "", "0", 70),
  N("param", "total_accesses", "", "0", 70),
  N("param", "total_reads", "", "0", 70),
  N("param", "total_writes", "", "0", 70),
  N("component", "main_memory", "main_memory", "", 2),
  N("param", "peak_memory_bw", "", "25.6", 81),
  N("param", "ext_dram_accesses", "", "0", 81)
>>

RootIdx == 1

RECURSIVE IsDescendant(_, _, _)
\* element j lies strictly below element n
IsDescendant(tree, j, n) ==
  /\ j # 0
  /\ tree[j].parent # 0
  /\ (tree[j].parent = n \/ IsDescendant(tree, tree[j].parent, n))

\* n.find(".//tag[@name='name']"): the first match below n in document order, 0 for None
Find(tree, n, tag, name) ==
  LET hits == {j \in 1..Len(tree) :
                 IsDescendant(tree, j, n) /\ tree[j].tag = tag /\ tree[j].name = name}
  IN  IF hits = {} THEN 0 ELSE CHOOSE j \in hits : \A k \in hits : j <= k

\* `if node:' - None is false, and an Element is true iff it has children
Truthy(tree, n) == n # 0 /\ \E j \in 1..Len(tree) : tree[j].parent = n

(***************************************************************************)
(* Config Parser                                                           *)
(***************************************************************************)
EmptyDict == JDict(<<>>)

\* custom_converter.py parse_config, applied to the value json.load returned
parse_config(config_data) ==
  IF config_data.t = "list"
  THEN IF Len(config_data.v) > 0 THEN Ok(config_data.v[1]) ELSE Raise("ValueError")
  ELSE Ok(config_data)

\* backup.py parse_config, applied to the value json.load returned
backup_parse_config(config_data) == Ok(config_data)

\* custom_converter.py create_mcpat_xml, lines 79-82: the entry check
EntryCheck(cfg) ==
  IF cfg.t = "list" /\ Len(cfg.v) > 0 THEN Ok(cfg.v[1])
  ELSE IF cfg.t # "dict" THEN Raise("TypeError")
  ELSE Ok(cfg)

(***************************************************************************)
(* XML Populator: the running state of create_mcpat_xml is                 *)
(*   tree  the element tree, out  the lines printed, exc  the exception    *)
(*   raised ("none" while running), the locals total_cycles and            *)
(*   clock_rate_mhz that the system block binds, and the two objects the   *)
(*   caller passed by reference: stats, the dict of the StatTable, and     *)
(*   config, the value parse_config returned.                              *)
(***************************************************************************)
Unbound == [unbound |-> TRUE]

\* a name of the driver that is not assigned yet
None == [t |-> "none"]

\* the tree of the call before is taken up again where there is one
StartPopulate_reusing(template, stats_data, config_arg) ==
  [tree |-> IF xml = None THEN template ELSE xml, out |-> <<>>, exc |-> "none",
   total_cycles |-> Unbound, clock_rate_mhz |-> Unbound,
   stats |-> stats_data, config |-> config_arg]

\* tree = ET.ElementTree(ET.fromstring(mcpat_template)); root = tree.getroot()
StartPopulate(template, stats_data, config_arg) ==
  [tree |-> template, out |-> <<>>, exc |-> "none",
   total_cycles |-> Unbound, clock_rate_mhz |-> Unbound,
   stats |-> stats_data, config |-> config_arg]

\* the value is written to a new child element of base (ET.SubElement) and
\* the element found is left alone
SetValue_appending(s, base, tag, name, val) ==
  IF s.exc # "none" THEN s
  ELSE LET i == Find(s.tree, base, tag, name)
       IN  IF i = 0 THEN [s EXCEPT !.exc = "AttributeError"]
           ELSE [s EXCEPT !.tree = Append(@, N(tag, name, "", val, base))]

\* base.find(".//tag[@name='name']").attrib['value'] = val
SetValue(s, base, tag, name, val) ==
  IF s.exc # "none" THEN s
  ELSE LET i == Find(s.tree, base, tag, name)
       IN  IF i = 0 THEN [s EXCEPT !.exc = "AttributeError"]
           ELSE [s EXCEPT !.tree[i].value = val]

RECURSIVE SetValues(_, _, _)
\* a run of assignments below the same element, in order
SetValues(s, base, ws) ==
  IF ws = <<>> THEN s
  ELSE SetValues(SetValue(s, base, ws[1][1], ws[1][2], ws[1][3]), base, Tail(ws))

\* print(...) of each message
Emit(s, msgs) == IF s.exc # "none" THEN s ELSE [s EXCEPT !.out = @ \o msgs]

\* get_stat_value has returned: its lines are printed, the dict is as it left it
AfterCalls(s, out, table) ==
  IF s.exc # "none" THEN s ELSE [s EXCEPT !.out = @ \o out, !.stats = table]

\* str(int(x)) of a resolved stat
IntField(r) == IntStr(IntOfFloat(r.value))

\* config.get('board', {}).get('cache_line_size', 64)
CacheLineSize(cfg) ==
  DictGet(DictGet(Ok(cfg), "board", EmptyDict), "cache_line_size", JInt(64))

\* config.get('board', {}).get('processor', {}).get('cores', [])
CoresList(cfg) ==
  DictGet(DictGet(DictGet(Ok(cfg), "board", EmptyDict), "processor", EmptyDict),
          "cores", JList(<<>>))

\* the count with an empty list taken for one core
NumCores_at_least_one(cores_list) ==
  IF cores_list.t = "list" /\ Len(cores_list.v) > 0 THEN Len(cores_list.v) ELSE 1

\* len(cores_list) if isinstance(cores_list, list) else 1
NumCores(cores_list) == IF cores_list.t = "list" THEN Len(cores_list.v) ELSE 1

\* config['board']['cache_hierarchy'][name]
CacheHierarchy(cfg, name) ==
  GetKey(GetKey(GetKey(Ok(cfg), "board"), "cache_hierarchy"), name)

\* int(c['size'].replace('B', '')) if isinstance(c['size'], str) else c['size']
SizeOf(c) ==
  LET r == GetKey(c, "size")
  IN  IF r.exc # "none" THEN r
      ELSE IF r.val.t = "str"
           THEN LET n == ParseInt(Remove(r.val.v, "B"))
                IN  IF n.exc # "none" THEN n ELSE Ok(JInt(n.val))
           ELSE r

L1Warning(which) ==
  [text |-> "Warning: Could not find " \o which \o " cache config. Using defaults."]

\* custom_converter.py lines 340-356: one `if node: try ... except (KeyError, IndexError)' block
L1Geometry(s, cfg, node, param, listName, i, cls, mode) ==
  IF s.exc # "none" \/ ~Truthy(s.tree, node) THEN s
  ELSE LET c     == GetIdx(CacheHierarchy(cfg, listName), i)
           size  == SizeOf(c)
           assoc == IF size.exc # "none" THEN size ELSE GetKey(c, "assoc")
       IN  IF assoc.exc = "none"
           THEN SetValue(s, node, "param", param,
                  PyStr(size.val) \o "," \o PyStr(cls) \o "," \o PyStr(assoc.val)
                  \o ",1,10,10," \o PyStr(cls) \o "," \o mode)
           ELSE IF assoc.exc \in {"KeyError", "IndexError"}
                THEN Emit(s, <<L1Warning(IF mode = "0" THEN "L1I" ELSE "L1D")>>)
                ELSE [s EXCEPT !.exc = assoc.exc]

\* custom_converter.py lines 292-304: the system block
SystemBlock(s, num_cores) ==
  LET system_node == Find(s.tree, RootIdx, "component", "system")
  IN  IF s.exc # "none" \/ ~Truthy(s.tree, system_node) THEN s
      ELSE LET s1  == SetValue(s, system_node, "param", "number_of_cores", IntStr(num_cores))
               tc  == get_stat_value(s1.stats, "total_cycles", 0)
               s2  == SetValues(AfterCalls(s1, tc.out, tc.stats), system_node,
                        << <<"stat", "total_cycles", IntField(tc)>>,
                           <<"stat", "busy_cycles", IntField(tc)>> >>)
               hz  == get_stat_value(s2.stats, "system.clk_domain.clock", 1000000000)
               mhz == FloatDivPow10(hz.value, 6)
               s3  == SetValue(AfterCalls(s2, hz.out, hz.stats), system_node, "param",
                               "target_core_clockrate", FloatStr(mhz))
           IN  IF s3.exc # "none" THEN s3
               ELSE [s3 EXCEPT !.total_cycles = tc.value, !.clock_rate_mhz = mhz]

\* custom_converter.py lines 308-356: the body of `for i in range(num_cores)'
CoreBlock(s, cfg, cls, i) ==
  LET core_node == Find(s.tree, RootIdx, "component", "core" \o IntStr(i))
  IN  IF s.exc # "none" \/ ~Truthy(s.tree, core_node) THEN s
      ELSE IF s.clock_rate_mhz = Unbound THEN [s EXCEPT !.exc = "NameError"]
      ELSE
        LET s1 == SetValue(s, core_node, "param", "clock_rate", FloatStr(s.clock_rate_mhz))
            committed_insts == get_stat_value(s1.stats, "committedInsts", 0)
            committed_int == get_stat_value(committed_insts.stats, "int_insts", 0)
            committed_fp == get_stat_value(committed_int.stats, "fp_insts", 0)
            branches == get_stat_value(committed_fp.stats, "branches", 0)
            branch_mispredicts == get_stat_value(branches.stats, "branchMispredicts", 0)
            dcache_reads ==
              get_stat_value(branch_mispredicts.stats,
                             "system.l1dcaches" \o IntStr(i) \o ".ReadReq::total", 0)
            dcache_writes ==
              get_stat_value(dcache_reads.stats,
                             "system.l1dcaches" \o IntStr(i) \o ".WriteReq::total", 0)
            s2 == AfterCalls(s1, committed_insts.out \o committed_int.out \o committed_fp.out
                                 \o branches.out \o branch_mispredicts.out
                                 \o dcache_reads.out \o dcache_writes.out,
                             dcache_writes.stats)
            s3 == SetValues(s2, core_node,
                    << <<"stat", "total_instructions", IntField(committed_insts)>>,
                       <<"stat", "int_instructions", IntField(committed_int)>>,
                       <<"stat", "fp_instructions", IntField(committed_fp)>>,
                       <<"stat", "branch_instructions", IntField(branches)>>,
                       <<"stat", "branch_mispredictions", IntField(branch_mispredicts)>>,
                       <<"stat", "load_instructions", IntField(dcache_reads)>>,
                       <<"stat", "store_instructions", IntField(dcache_writes)>>,
                       <<"stat", "committed_instructions", IntField(committed_insts)>>,
                       <<"stat", "committed_int_instructions", IntField(committed_int)>>,
                       <<"stat", "committed_fp_instructions", IntField(committed_fp)>>,
                       <<"stat", "total_cycles", IntStr(IntOfFloat(s.total_cycles))>>,
                       <<"stat", "busy_cycles", IntStr(IntOfFloat(s.total_cycles))>> >>)
            icache_config_node == Find(s.tree, core_node, "component", "icache")
            dcache_config_node == Find(s.tree, core_node, "component", "dcache")
            s4 == L1Geometry(s3, cfg, icache_config_node, "icache_config", "l1icaches", i, cls, "0")
        IN  L1Geometry(s4, cfg, dcache_config_node, "dcache_config", "l1dcaches", i, cls, "1")

RECURSIVE CoreLoop(_, _, _, _, _)
\* for i in range(num_cores), from index i on
CoreLoop(s, cfg, cls, i, num_cores) ==
  IF i >= num_cores THEN s
  ELSE CoreLoop(CoreBlock(s, cfg, cls, i), cfg, cls, i + 1, num_cores)

\* custom_converter.py lines 361-367: the body of `for i in range(num_l2s)'
L2Block(s, i) ==
  LET l2_node == Find(s.tree, RootIdx, "component", "L2" \o IntStr(i))
  IN  IF s.exc # "none" \/ ~Truthy(s.tree, l2_node) THEN s
      ELSE LET l2_reads == get_stat_value(s.stats, "system.l2cache.ReadReq::total", 0)
               l2_writes == get_stat_value(l2_reads.stats, "system.l2cache.WriteReq::total", 0)
           IN  SetValues(AfterCalls(s, l2_reads.out \o l2_writes.out, l2_writes.stats), l2_node,
                 << <<"stat", "read_accesses", IntField(l2_reads)>>,
                    <<"stat", "write_accesses", IntField(l2_writes)>> >>)

RECURSIVE L2Loop(_, _, _)
\* for i in range(num_l2s), from index i on
L2Loop(s, i, num_l2s) ==
  IF i >= num_l2s THEN s ELSE L2Loop(L2Block(s, i), i + 1, num_l2s)

\* the largest L2 count that int() is asked to read back from the tree
MaxL2s == 9

\* custom_converter.py lines 359-367
L2Section(s) ==
  IF s.exc # "none" THEN s
  ELSE LET system_node == Find(s.tree, RootIdx, "component", "system")
           p == IF system_node = 0 THEN 0
                ELSE Find(s.tree, system_node, "param", "number_of_L2s")
       IN  IF p = 0 THEN [s EXCEPT !.exc = "AttributeError"]
           ELSE LET n == IntOfStr(s.tree[p].value, MaxL2s)
                IN  IF n.exc # "none" THEN [s EXCEPT !.exc = n.exc]
                    ELSE L2Loop(s, 0, n.val)

\* custom_converter.py create_mcpat_xml
create_mcpat_xml(stats_data, config_arg) ==
  LET cfg == EntryCheck(config_arg)
      s0  == StartPopulate(mcpat_template, stats_data, config_arg)
  IN  IF cfg.exc # "none" THEN [s0 EXCEPT !.exc = cfg.exc]
      ELSE LET cls   == CacheLineSize(cfg.val)
               cores == CoresList(cfg.val)
           IN  IF cls.exc # "none" THEN [s0 EXCEPT !.exc = cls.exc]
               ELSE IF cores.exc # "none" THEN [s0 EXCEPT !.exc = cores.exc]
               ELSE LET num_cores == NumCores(cores.val)
                        s1 == SystemBlock(s0, num_cores)
                        s2 == CoreLoop(s1, cfg.val, cls.val, 0, num_cores)
                    IN  L2Section(s2)

(***************************************************************************)
(* backup.py create_mcpat_xml                                              *)
(***************************************************************************)
Zero == [m |-> 0, e |-> 0]

RECURSIVE BackupSetStats(_, _, _)
\* node.find(".//param[@name='p']").attrib['value'] = str(int(get_stat_value(stats, key, 0))),
\* for each <<p, key>> of fields in order
BackupSetStats(s, node, fields) ==
  IF fields = <<>> \/ s.exc # "none" THEN s
  ELSE LET r == backup_get_stat_value(s.stats, fields[1][2], Zero)
       IN  BackupSetStats(SetValue(AfterCalls(s, r.out, r.stats), node, "param", fields[1][1],
                                   IntStr(IntOfFloat(r.value))),
                          node, Tail(fields))

RECURSIVE FracDigits(_, _)
\* the digits after the point of r / d, for r < d and d a power of two
FracDigits(r, d) ==
  IF r = 0 THEN "" ELSE Digits[((r * 10) \div d) + 1] \o FracDigits((r * 10) % d, d)

\* str(n // d): floor division where the code divides truly
DivStr_floor(n, d) == NatStr(n \div d)

\* str(n / d) for ints n >= 0 and d a power of two: true division, printed by repr()
DivStr(n, d) ==
  NatStr(n \div d) \o "." \o (IF n % d = 0 THEN "0" ELSE FracDigits(n % d, d))

\* backup.py lines 146-156: the system block
BackupSystemBlock(s) ==
  LET system_node == Find(s.tree, RootIdx, "component", "system")
  IN  IF s.exc # "none" \/ ~Truthy(s.tree, system_node) THEN s
      ELSE LET s1  == BackupSetStats(s, system_node,
                        << <<"total_insts", "simInsts">>,
                           <<"total_cycles", "board.processor.cores.core.tickCycles">> >>)
               hz  == backup_get_stat_value(s1.stats, "simFreq", [m |-> 1, e |-> 12])
               mhz == FloatDivPow10(hz.value, 6)
               s2  == SetValue(AfterCalls(s1, hz.out, hz.stats), system_node, "param",
                               "target_core_clockrate", FloatStr(mhz))
           IN  IF s2.exc # "none" THEN s2 ELSE [s2 EXCEPT !.clock_rate_mhz = mhz]

\* backup.py lines 161-206: the parameters of the core element and the stat each is read from
backup_core_fields == <<
  <<"total_inst", "simInsts">>,
  <<"committed_inst", "simInsts">>,
  <<"int_inst", "board.processor.cores.core.int_insts">>,
  <<"fp_inst", "board.processor.cores.core.fp_insts">>,
  <<"load_inst", "board.cache_hierarchy.l1dcaches.ReadReq.accesses::total">>,
  <<"store_inst", "board.cache_hierarchy.l1dcaches.WriteReq.accesses::total">>,
  <<"committed_int_inst", "board.processor.cores.core.committed_int_insts">>,
  <<"committed_fp_inst", "board.processor.cores.core.committed_fp_insts">>,
  <<"rob_accesses", "board.processor.cores.core.rob_accesses">>,
  <<"issue_queue_accesses", "board.processor.cores.core.issue_queue_accesses">>,
  <<"int_regfile_reads", "board.processor.cores.core.int_regfile_reads">>,
  <<"fp_regfile_reads", "board.processor.cores.core.fp_regfile_reads">>,
  <<"int_regfile_writes", "board.processor.cores.core.int_regfile_writes">>,
  <<"fp_regfile_writes", "board.processor.cores.core.fp_regfile_writes">>,
  <<"rename_accesses", "board.processor.cores.core.rename_accesses">>,
  <<"rob_reads", "board.processor.cores.core.rob_reads">>,
  <<"rob_writes", "board.processor.cores.core.rob_writes">>,
  <<"L1I_hits", "board.cache_hierarchy.l1icaches.overallHits::total">>,
  <<"L1I_misses", "board.cache_hierarchy.l1icaches.overallMisses::total">>,
  <<"L1D_hits", "board.cache_hierarchy.l1dcaches.overallHits::total">>,
  <<"L1D_misses", "board.cache_hierarchy.l1dcaches.overallMisses::total">>,
  <<"L2_hits", "board.cache_hierarchy.l2cache.overallHits::total">>,
  <<"L2_misses", "board.cache_hierarchy.l2cache.overallMisses::total">>,
  <<"ITLB_accesses", "board.processor.cores.core.mmu.dtb.accesses">>,
  <<"ITLB_misses", "board.processor.cores.core.mmu.dtb.misses">>,
  <<"DTLB_accesses", "board.processor.cores.core.mmu.itb.accesses">>,
  <<"DTLB_misses", "board.processor.cores.core.mmu.itb.misses">>,
  <<"branch_insts", "board.processor.cores.core.branchPred.condPredicted">>,
  <<"branch_mispredictions", "board.processor.cores.core.branchPred.condIncorrect">> >>

\* backup.py lines 159-206: the core block
BackupCoreBlock(s) ==
  LET core_node == Find(s.tree, RootIdx, "component", "core")
  IN  IF s.exc # "none" \/ ~Truthy(s.tree, core_node) THEN s
      ELSE IF s.clock_rate_mhz = Unbound THEN [s EXCEPT !.exc = "NameError"]
      ELSE BackupSetStats(
             SetValue(s, core_node, "param", "clock_rate", FloatStr(s.clock_rate_mhz)),
             core_node, backup_core_fields)

BackupWarning(which) ==
  [text |-> "Warning: Could not find " \o which \o " cache config. Defaulting to 0."]

\* the cache block with the three statistic fields written after the try
\* statement, with or without a config entry
BackupCacheBlock_stats_after_try(s, c, caught, nodeName, which, statPrefix, cls) ==
  LET node == Find(s.tree, RootIdx, "component", nodeName)
  IN  IF s.exc # "none" \/ ~Truthy(s.tree, node) THEN s
      ELSE LET size  == GetKey(c, "size")
               assoc == IF size.exc # "none" THEN size ELSE GetKey(c, "assoc")
               bytes == IF assoc.exc # "none" THEN assoc ELSE PyInt(size.val)
               stat_fields ==
                 << <<"total_accesses", statPrefix \o ".overallAccesses::total">>,
                    <<"total_reads", statPrefix \o ".ReadReq.accesses::total">>,
                    <<"total_writes", statPrefix \o ".WriteReq.accesses::total">> >>
           IN  IF bytes.exc = "none"
               THEN BackupSetStats(
                      SetValues(s, node,
                        << <<"param", "cache_size", DivStr(bytes.val, 1024)>>,
                           <<"param", "line_size", PyStr(cls)>>,
                           <<"param", "associativity", PyStr(assoc.val)>> >>),
                      node, stat_fields)
               ELSE IF bytes.exc \in caught
                    THEN BackupSetStats(Emit(s, <<BackupWarning(which)>>), node, stat_fields)
               ELSE [s EXCEPT !.exc = bytes.exc]

\* backup.py lines 209-229, 232-252, 255-275: one `if node: try ... except' block.
\* c is the result of the config lookup, caught the exceptions the block catches.
BackupCacheBlock(s, c, caught, nodeName, which, statPrefix, cls) ==
  LET node == Find(s.tree, RootIdx, "component", nodeName)
  IN  IF s.exc # "none" \/ ~Truthy(s.tree, node) THEN s
      ELSE LET size  == GetKey(c, "size")
               assoc == IF size.exc # "none" THEN size ELSE GetKey(c, "assoc")
               bytes == IF assoc.exc # "none" THEN assoc ELSE PyInt(size.val)
           IN  IF bytes.exc = "none"
               THEN BackupSetStats(
                      SetValues(s, node,
                        << <<"param", "cache_size", DivStr(bytes.val, 1024)>>,
                           <<"param", "line_size", PyStr(cls)>>,
                           <<"param", "associativity", PyStr(assoc.val)>> >>),
                      node,
                      << <<"total_accesses", statPrefix \o ".overallAccesses::total">>,
                         <<"total_reads", statPrefix \o ".ReadReq.accesses::total">>,
                         <<"total_writes", statPrefix \o ".WriteReq.accesses::total">> >>)
               ELSE IF bytes.exc \in caught THEN Emit(s, <<BackupWarning(which)>>)
               ELSE [s EXCEPT !.exc = bytes.exc]

\* the main memory block with the writebacks left out of the sum
BackupMemoryBlock_reads_only(s) ==
  LET mem_node == Find(s.tree, RootIdx, "component", "main_memory")
  IN  IF s.exc # "none" \/ ~Truthy(s.tree, mem_node) THEN s
      ELSE LET dram_reads ==
                 backup_get_stat_value(s.stats, "board.memory.mem_ctrl.dram.numReads::total", Zero)
           IN  SetValue(AfterCalls(s, dram_reads.out, dram_reads.stats), mem_node, "param",
                        "ext_dram_accesses", IntStr(IntOfFloat(dram_reads.value)))

\* backup.py lines 278-283: the main memory block
BackupMemoryBlock(s) ==
  LET mem_node == Find(s.tree, RootIdx, "component", "main_memory")
  IN  IF s.exc # "none" \/ ~Truthy(s.tree, mem_node) THEN s
      ELSE LET dram_reads ==
                 backup_get_stat_value(s.stats, "board.memory.mem_ctrl.dram.numReads::total", Zero)
               l1d_writebacks ==
                 backup_get_stat_value(dram_reads.stats,
                                       "board.cache_hierarchy.l1dcaches.writebacks::total", Zero)
               ext_dram_accesses == FloatAdd(dram_reads.value, l1d_writebacks.value)
           IN  SetValue(AfterCalls(s, dram_reads.out \o l1d_writebacks.out, l1d_writebacks.stats),
                        mem_node, "param", "ext_dram_accesses",
                        IntStr(IntOfFloat(ext_dram_accesses)))

\* backup.py create_mcpat_xml
backup_create_mcpat_xml(table, cfg) ==
  LET s0  == StartPopulate(backup_mcpat_template, table, cfg)
      cls == CacheLineSize(cfg)
  IN  IF cls.exc # "none" THEN [s0 EXCEPT !.exc = cls.exc]
      ELSE LET s1 == BackupSystemBlock(s0)
               s2 == BackupCoreBlock(s1)
               s3 == BackupCacheBlock(s2,
                       GetIdx(CacheHierarchy(cfg, "l1icaches"), 0),
                       {"KeyError", "IndexError"}, "L1Icache", "L1I",
                       "board.cache_hierarchy.l1icaches", cls.val)
               s4 == BackupCacheBlock(s3,
                       GetIdx(CacheHierarchy(cfg, "l1dcaches"), 0),
                       {"KeyError", "IndexError"}, "L1Dcache", "L1D",
                       "board.cache_hierarchy.l1dcaches", cls.val)
               s5 == BackupCacheBlock(s4, CacheHierarchy(cfg, "l2cache"),
                       {"KeyError"}, "L2cache", "L2",
                       "board.cache_hierarchy.l2cache", cls.val)
           IN  BackupMemoryBlock(s5)

CreateOf(v, table, cfg) ==
  IF v = "custom" THEN create_mcpat_xml(table, cfg) ELSE backup_create_mcpat_xml(table, cfg)

(***************************************************************************)
(* Inputs of a run                                                         *)
(***************************************************************************)
NoFile == [exists |-> FALSE]

NotJson == [t |-> "notjson"]

Absent == [t |-> "absent"]

RECURSIVE NatChars(_)
\* the decimal digits of n, as the characters of a token
NatChars(n) == IF n < 10 THEN <<Digits[n + 1]>> ELSE NatChars(n \div 10) \o <<Digits[(n % 10) + 1]>>

\* stat names that occur in the stats files of the model, spelled out
KeyTotalCycles == <<"t", "o", "t", "a", "l", "_", "c", "y", "c", "l", "e", "s">>

KeyNumCycles == <<"s", "y", "s", "t", "e", "m", ".", "c", "p", "u", ".", "n", "u", "m", "C", "y", "c", "l", "e", "s">>

KeyL2Reads == <<"s", "y", "s", "t", "e", "m", ".", "l", "2", "c", "a", "c", "h", "e", ".", "R", "e", "a", "d", "R", "e", "q", ":", ":", "t", "o", "t", "a", "l">>

KeyDramReads == <<"b", "o", "a", "r", "d", ".", "m", "e", "m", "o", "r", "y", ".", "m", "e", "m", "_", "c", "t", "r", "l", ".", "d", "r", "a", "m", ".", "n", "u", "m", "R", "e", "a", "d", "s", ":", ":", "t", "o", "t", "a", "l">>

KeyWritebacks == <<"b", "o", "a", "r", "d", ".", "c", "a", "c", "h", "e", "_", "h", "i", "e", "r", "a", "r", "c", "h", "y", ".", "l", "1", "d", "c", "a", "c", "h", "e", "s", ".", "w", "r", "i", "t", "e", "b", "a", "c", "k", "s", ":", ":", "t", "o", "t", "a", "l">>

KeyL1dAccesses == <<"b", "o", "a", "r", "d", ".", "c", "a", "c", "h", "e", "_", "h", "i", "e", "r", "a", "r", "c", "h", "y", ".", "l", "1", "d", "c", "a", "c", "h", "e", "s", ".", "o", "v", "e", "r", "a", "l", "l", "A", "c", "c", "e", "s", "s", "e", "s", ":", ":", "t", "o", "t", "a", "l">>

\* counts that stats lines carry
CountValues == {0, 20, 100}

\* an optional line: <<>> for "no such line", <<n>> for a line with count n
NoLine == <<>>

Some(n) == <<n>>

OptCounts == {NoLine} \cup {Some(n) : n \in CountValues}

\* the line `key n', or nothing
StatLine(key, opt) == IF opt = NoLine THEN <<>> ELSE << <<key, NatChars(opt[1])>> >>

FileOf(lines) == [exists |-> TRUE, lines |-> lines]

\* a stats dump for custom_converter.py: cycles under the canonical name and
\* under its first alias, and the L2 read count
CustomStatsFile(c, a, r) ==
  FileOf(StatLine(KeyNumCycles, a) \o StatLine(KeyTotalCycles, c) \o StatLine(KeyL2Reads, r))

\* a stats dump for backup.py: DRAM reads, L1D writebacks, L1D accesses
BackupStatsFile(r, w, d) ==
  FileOf(StatLine(KeyDramReads, r) \o StatLine(KeyWritebacks, w) \o StatLine(KeyL1dAccesses, d))

CustomStatsFiles ==
  {CustomStatsFile(c, a, r) :
     c \in {NoLine, Some(100)}, a \in {NoLine, Some(20)}, r \in {NoLine, Some(0)}}

BackupStatsFiles ==
  {BackupStatsFile(r, w, d) : r \in OptCounts, w \in OptCounts, d \in {NoLine, Some(20)}}

\* the largest number of cores in a config of the model
MaxCores == 2

\* key |-> val, or nothing when val is Absent
Opt(key, val) == IF val = Absent THEN <<>> ELSE key :> val

Entry(size, assoc) == JDict(Opt("size", size) @@ Opt("assoc", assoc))

Str32768B == <<"3", "2", "7", "6", "8", "B">>

\* values of board.cache_hierarchy.l1icaches / l1dcaches
L1Lists ==
  {Absent,
   JList(<<>>),
   JList(<<Entry(JInt(32768), JInt(8))>>),
   JList(<<Entry(JInt(1000), JInt(2)), Entry(JStr(Str32768B), JInt(4))>>),
   JList(<<Entry(JStr(Str32768B), JInt(2))>>),
   JList(<<Entry(Absent, JInt(8))>>),
   JList(<<Entry(JInt(32768), Absent)>>)}

\* values of board.cache_hierarchy.l2cache
L2Entries == {Absent, Entry(JInt(1048576), JInt(16))}

\* values of board.processor.cores: no such key, a list of n cores, or a non-list
CoresValues ==
  {Absent, JInt(4)} \cup {JList([i \in 1..n |-> EmptyDict]) : n \in 0..MaxCores}

LineSizes == {Absent, JInt(32)}

Board(cores, cls, l1i, l1d, l2) ==
  JDict("board" :>
    JDict(Opt("cache_line_size", cls)
          @@ ("processor" :> JDict(Opt("cores", cores)))
          @@ ("cache_hierarchy" :>
                JDict(Opt("l1icaches", l1i) @@ Opt("l1dcaches", l1d) @@ Opt("l2cache", l2)))))

\* boards for custom_converter.py, which never reads l2cache
CustomBoards ==
  {Board(cores, cls, l1i, l1d, Entry(JInt(1048576), JInt(16))) :
     cores \in CoresValues, cls \in LineSizes, l1i \in L1Lists, l1d \in L1Lists}

\* boards for backup.py, which never reads processor.cores
BackupBoards ==
  {Board(cores, cls, l1i, l1d, l2) :
     cores \in {Absent, JList(<<EmptyDict>>)}, cls \in LineSizes,
     l1i \in L1Lists, l1d \in L1Lists, l2 \in L2Entries}

\* configs that lack a whole sub-tree
PartialConfigs ==
  {EmptyDict,
   JDict("board" :> EmptyDict),
   JDict("board" :> JDict("cache_line_size" :> JInt(32))),
   JDict("board" :> JDict("processor" :> JDict("cores" :> JList(<<EmptyDict>>)))),
   JDict("board" :> JDict("cache_hierarchy" :> EmptyDict))}

FullBoard ==
  Board(JList(<<EmptyDict>>), JInt(32), JList(<<Entry(JInt(32768), JInt(8))>>),
        JList(<<Entry(JInt(32768), JInt(8))>>), Entry(JInt(1048576), JInt(16)))

\* top-level JSON values that are not a plain mapping
WrappedConfigs ==
  {JList(<<FullBoard>>), JList(<<>>), JList(<<JList(<<JInt(5)>>)>>), JInt(5),
   JList(<<JInt(5)>>), JList(<<JList(<<FullBoard>>)>>), JList(<<JList(<<>>)>>),
   JNull, JStr(<<"x">>), NotJson}

\* the configs that every stats file of the model is combined with
CommonConfigs == {FullBoard} \cup PartialConfigs \cup WrappedConfigs

JsonFiles(values) == {[exists |-> TRUE, json |-> j] : j \in values}

(***************************************************************************)
(* The driver (`if __name__ == "__main__":')                               *)
(***************************************************************************)
NoCall == [calls |-> 0]

Idle ==
  /\ stats = None /\ config = None /\ xml = None
  /\ stdout = <<>> /\ stderr = <<>>
  /\ exitStatus = -1 /\ ret = NoCall

\* mcpat_output.xml as an earlier run left it in the working directory
StaleFile == [exists |-> TRUE, tree |-> <<N("component", "root", "root", "", 0)>>]

\* mcpat_output.xml after open(..., "w") truncated it and f.write failed
TruncatedFile == [exists |-> TRUE, tree |-> <<>>]

\* a process started with two file arguments, or with too few or too many,
\* in a directory with or without an mcpat_output.xml
Init ==
  /\ pc = "main"
  /\ Idle
  /\ outFile \in {NoFile, StaleFile}
  /\ \/ /\ argc = 3
        /\ variant = "custom"
        /\ \/ /\ statsFile \in CustomStatsFiles
              /\ configFile \in JsonFiles(CommonConfigs)
           \/ /\ statsFile = CustomStatsFile(Some(100), NoLine, Some(0))
              /\ configFile \in JsonFiles(CustomBoards)
     \/ /\ argc = 3
        /\ variant = "backup"
        /\ \/ /\ statsFile \in BackupStatsFiles
              /\ configFile \in JsonFiles(CommonConfigs)
           \/ /\ statsFile = BackupStatsFile(Some(100), Some(20), Some(20))
              /\ configFile \in JsonFiles(BackupBoards)
     \/ /\ argc = 3
        /\ variant \in Variants
        /\ \/ /\ statsFile \in {NoFile, CustomStatsFile(Some(100), NoLine, NoLine)}
              /\ configFile = NoFile
           \/ /\ statsFile = NoFile
              /\ configFile \in JsonFiles({FullBoard})
     \/ /\ argc \in {1, 2, 4}
        /\ variant \in Variants
        /\ statsFile = NoFile
        /\ configFile = NoFile

UsageMessage(v) ==
  IF v = "custom"
  THEN [text |-> "Usage: python mcpat_converter.py <stats.txt> <config.json>"]
  ELSE [text |-> "Usage: python custom_converter.py <path_to_stats.txt> <path_to_config.json>"]

SuccessMessage(v) ==
  IF v = "custom"
  THEN [text |-> "mcpat_output.xml created successfully."]
  ELSE [text |-> "Successfully generated mcpat_output.xml"]

\* the except clauses of the driver: what is printed for exception e, and where
ErrorMessage(v, e) ==
  IF v = "custom" THEN [text |-> "An error occurred: {e}", exc |-> e]
  ELSE IF e = "FileNotFoundError"
       THEN [text |-> "Error: One or both of the files could not be found."]
       ELSE [text |-> "An unexpected error occurred: {e}", exc |-> e]

\* the exception leaves the script: the interpreter prints the traceback and exits with 1
Caught_propagating(e, printed) ==
  /\ stdout' = stdout \o printed
  /\ stderr' = Append(stderr, [text |-> "Traceback (most recent call last):", exc |-> e])
  /\ pc' = "exited"
  /\ exitStatus' = 1

\* the try block is left through an except clause after `printed' was printed
Caught(e, printed) ==
  /\ stdout' = IF variant = "custom" THEN stdout \o printed
               ELSE (stdout \o printed) \o <<ErrorMessage(variant, e)>>
  /\ stderr' = IF variant = "custom" THEN Append(stderr, ErrorMessage(variant, e)) ELSE stderr
  /\ pc' = "exited"
  /\ exitStatus' = 0

\* if len(sys.argv) != 3: print usage; sys.exit(1)
CheckArgs ==
  /\ pc = "main"
  /\ IF argc # 3
     THEN /\ stdout' = Append(stdout, UsageMessage(variant))
          /\ exitStatus' = 1
          /\ pc' = "exited"
     ELSE /\ pc' = "parse_stats"
          /\ UNCHANGED <<stdout, exitStatus>>
  /\ UNCHANGED <<variant, argc, statsFile, configFile, stats, config, xml, stderr, outFile, ret>>

\* parse_stats with the failure swallowed: the run goes on with an empty table
ParseStats_continuing ==
  /\ pc = "parse_stats"
  /\ stats' = IF statsFile.exists THEN ParseStatsOf(variant, statsFile.lines) ELSE EmptyTable
  /\ pc' = "parse_config"
  /\ IF statsFile.exists
     THEN UNCHANGED <<stdout, stderr>>
     ELSE /\ stdout' = IF variant = "custom" THEN stdout
                       ELSE Append(stdout, ErrorMessage(variant, "FileNotFoundError"))
          /\ stderr' = IF variant = "custom"
                       THEN Append(stderr, ErrorMessage(variant, "FileNotFoundError"))
                       ELSE stderr
  /\ UNCHANGED <<variant, argc, statsFile, configFile, config, xml, outFile, ret, exitStatus>>

\* stats = parse_stats(stats_file)
ParseStats ==
  /\ pc = "parse_stats"
  /\ IF statsFile.exists
     THEN /\ stats' = ParseStatsOf(variant, statsFile.lines)
          /\ pc' = "parse_config"
          /\ UNCHANGED <<stdout, stderr, exitStatus>>
     ELSE /\ Caught("FileNotFoundError", <<>>)
          /\ UNCHANGED stats
  /\ UNCHANGED <<variant, argc, statsFile, configFile, config, xml, outFile, ret>>

\* open(config_file) and json.load(f), then the rest of parse_config
LoadConfig(v, file) ==
  IF ~file.exists THEN Raise("FileNotFoundError")
  ELSE IF file.json = NotJson THEN Raise("JSONDecodeError")
  ELSE IF v = "custom" THEN parse_config(file.json) ELSE backup_parse_config(file.json)

\* config = parse_config(config_file)
ParseConfig ==
  /\ pc = "parse_config"
  /\ \E r \in {LoadConfig(variant, configFile)} :
         IF r.exc = "none"
         THEN /\ config' = r.val
              /\ pc' = "populate"
              /\ UNCHANGED <<stdout, stderr, exitStatus>>
         ELSE /\ Caught(r.exc, <<>>)
              /\ UNCHANGED config
  /\ UNCHANGED <<variant, argc, statsFile, configFile, stats, xml, outFile, ret>>

\* create_mcpat_xml called inside `with open("mcpat_output.xml", "w") as f:'
Populate_opening_first ==
  /\ pc = "populate"
  /\ outFile' = TruncatedFile
  /\ \E s \in {CreateOf(variant, stats, config)} :
         /\ stats' = s.stats
         /\ config' = s.config
         /\ IF s.exc = "none"
            THEN /\ xml' = s.tree
                 /\ stdout' = stdout \o s.out
                 /\ pc' = "write"
                 /\ UNCHANGED <<stderr, exitStatus>>
            ELSE /\ Caught(s.exc, s.out)
                 /\ UNCHANGED xml
  /\ UNCHANGED <<variant, argc, statsFile, configFile, ret>>

\* xml_output = create_mcpat_xml(stats, config)
Populate ==
  /\ pc = "populate"
  /\ \E s \in {CreateOf(variant, stats, config)} :
         /\ stats' = s.stats
         /\ config' = s.config
         /\ IF s.exc = "none"
            THEN /\ xml' = s.tree
                 /\ stdout' = stdout \o s.out
                 /\ pc' = "write"
                 /\ UNCHANGED <<stderr, exitStatus>>
            ELSE /\ Caught(s.exc, s.out)
                 /\ UNCHANGED xml
  /\ UNCHANGED <<variant, argc, statsFile, configFile, outFile, ret>>

\* what the file system does with the output file
WriteOutcomes == {"written", "open fails", "write fails"}

\* with open("mcpat_output.xml", "w") as f: f.write(xml_output)
\* open() may raise (the file is left alone) and so may f.write (the file was truncated)
WriteOutput ==
  /\ pc = "write"
  /\ \E outcome \in WriteOutcomes :
       IF outcome = "written"
       THEN /\ outFile' = [exists |-> TRUE, tree |-> xml]
            /\ pc' = "report"
            /\ UNCHANGED <<stdout, stderr, exitStatus>>
       ELSE /\ outFile' = IF outcome = "open fails" THEN outFile ELSE TruncatedFile
            /\ Caught("OSError", <<>>)
  /\ UNCHANGED <<variant, argc, statsFile, configFile, stats, config, xml, ret>>

\* print(success); the script ends
Report ==
  /\ pc = "report"
  /\ stdout' = Append(stdout, SuccessMessage(variant))
  /\ pc' = "exited"
  /\ exitStatus' = 0
  /\ UNCHANGED <<variant, argc, statsFile, configFile, stats, config, xml,
                 stderr, outFile, ret>>

Next == CheckArgs \/ ParseStats \/ ParseConfig \/ Populate \/ WriteOutput \/ Report

Spec == Init /\ [][Next]_vars

(***************************************************************************)
(* get_stat_value of custom_converter.py called directly, on any table     *)
(***************************************************************************)
\* the most calls made on one table
MaxCalls == 2

ResolverNames ==
  {"total_cycles", "system.cpu.numCycles", "system.cpu_clk_domain.num_cycles",
   "system.clk_domain.clock"}

ResolverValues == {Norm(1, 0), Norm(25, -1)}

ResolverTables ==
  UNION {[D -> ResolverValues] : D \in SUBSET ResolverNames}

ResolverKeys == {"total_cycles", "system.clk_domain.clock", "fp_insts"}

ResolverDefaults == {0, 7}

InitResolver ==
  /\ pc = "resolver"
  /\ variant = "custom"
  /\ argc = 3
  /\ statsFile = NoFile /\ configFile = NoFile
  /\ stats \in ResolverTables
  /\ config = None /\ xml = None
  /\ stdout = <<>> /\ stderr = <<>>
  /\ outFile = NoFile /\ exitStatus = -1 /\ ret = NoCall

\* get_stat_value(stats, key, default)
ResolveCall ==
  /\ pc = "resolver"
  /\ ret.calls < MaxCalls
  /\ \E key \in ResolverKeys, default \in ResolverDefaults :
       LET r == get_stat_value(stats, key, default)
       IN  /\ ret' = [calls |-> ret.calls + 1, key |-> key, default |-> default,
                      value |-> r.value, out |-> r.out]
           /\ stdout' = stdout \o r.out
           /\ stats' = r.stats
  /\ UNCHANGED <<variant, argc, statsFile, configFile, pc, config, xml,
                 stderr, outFile, exitStatus>>

NextResolver == ResolveCall

SpecResolver == InitResolver /\ [][NextResolver]_vars

(***************************************************************************)
(* parse_stats called directly on any short file, then one lookup          *)
(***************************************************************************)
\* the most lines in a stats file given to the parser alone
MaxLines == 3

KeyA == <<"a">>

KeyB == <<"b">>

Tok7 == <<"7">>

Tok1p5 == <<"1", ".", "5">>

Tok1e3 == <<"1", "e", "3">>

TokHex == <<"0", "x", "1", "0", "0", "0">>

Tok12abc == <<"1", "2", "a", "b", "c">>

TokAbc == <<"a", "b", "c">>

TokNeg5 == <<"-", "5">>

TokHash == <<"#">>

TokRule == <<"-", "-", "-", "-", "-", "-", "-", "-", "-", "-">>

ParserLines ==
  {<<KeyA, Tok7>>, <<KeyA, Tok1p5, TokHash, TokAbc>>, <<KeyA, TokHex>>, <<KeyA, Tok12abc>>,
   <<KeyA, TokAbc>>, <<KeyA, TokNeg5>>, <<KeyA>>, <<KeyB, Tok1e3>>, <<KeyB, Tok7>>,
   <<TokRule>>, <<>>}

SeqsUpTo(S, n) == UNION {[1..k -> S] : k \in 0..n}

InitParser ==
  /\ pc = "parser"
  /\ variant \in Variants
  /\ argc = 3
  /\ statsFile \in {FileOf(ls) : ls \in SeqsUpTo(ParserLines, MaxLines)}
  /\ configFile = NoFile
  /\ outFile = NoFile
  /\ Idle

\* stats = parse_stats(stats_file)
ParseCall ==
  /\ pc = "parser"
  /\ stats' = ParseStatsOf(variant, statsFile.lines)
  /\ pc' = "parsed"
  /\ UNCHANGED <<variant, argc, statsFile, configFile, config, xml,
                 stdout, stderr, outFile, exitStatus, ret>>

GetOf(v, table, key, default) ==
  IF v = "custom" THEN get_stat_value(table, key, default)
  ELSE backup_get_stat_value(table, key, FloatOfInt(default))

\* get_stat_value(stats, key, 0) on the parsed table
LookupCall ==
  /\ pc = "parsed"
  /\ \E key \in {"a", "b"} :
       LET r == GetOf(variant, stats, key, 0)
       IN  /\ ret' = [calls |-> 1, key |-> key, default |-> 0,
                      value |-> r.value, out |-> r.out]
           /\ stdout' = stdout \o r.out
           /\ stats' = r.stats
  /\ pc' = "looked_up"
  /\ UNCHANGED <<variant, argc, statsFile, configFile, config, xml,
                 stderr, outFile, exitStatus>>

NextParser == ParseCall \/ LookupCall

SpecParser == InitParser /\ [][NextParser]_vars

(***************************************************************************)
(* create_mcpat_xml called several times in one process, on any arguments  *)
(***************************************************************************)
\* the most calls made in one process
MaxPopulateCalls == 3

\* the StatTables handed to create_mcpat_xml: an empty one and a parsed file
PopulatorTables(v) ==
  {EmptyTable,
   ParseStatsOf(v, IF v = "custom" THEN CustomStatsFile(Some(100), NoLine, Some(0)).lines
                   ELSE BackupStatsFile(Some(100), Some(20), Some(20)).lines)}

\* the configs handed to create_mcpat_xml
PopulatorConfigs == {EmptyDict, FullBoard, JInt(5)}

NoCalls == [calls |-> 0, log |-> <<>>]

InitPopulator ==
  /\ pc = "populator"
  /\ variant \in Variants
  /\ argc = 3
  /\ statsFile = NoFile /\ configFile = NoFile
  /\ stats = None /\ config = None /\ xml = None
  /\ stdout = <<>> /\ stderr = <<>>
  /\ outFile = NoFile /\ exitStatus = -1 /\ ret = NoCalls

\* create_mcpat_xml(stats, config): ret.log keeps the arguments and the outcome of each call
PopulateCall ==
  /\ pc = "populator"
  /\ ret.calls < MaxPopulateCalls
  /\ \E table \in PopulatorTables(variant), cfg \in PopulatorConfigs :
       \E s \in {CreateOf(variant, table, cfg)} :
         /\ stats' = s.stats
         /\ config' = s.config
         /\ xml' = IF s.exc = "none" THEN s.tree ELSE xml
         /\ stdout' = stdout \o s.out
         /\ ret' = [calls |-> ret.calls + 1,
                    log |-> Append(ret.log,
                              [stats_data |-> table, config |-> cfg, exc |-> s.exc,
                               tree |-> IF s.exc = "none" THEN s.tree ELSE <<>>,
                               out |-> s.out])]
  /\ UNCHANGED <<variant, argc, statsFile, configFile, pc, stderr, outFile, exitStatus>>

NextPopulator == PopulateCall

SpecPopulator == InitPopulator /\ [][NextPopulator]_vars

(***************************************************************************)
(* Properties                                                              *)
(***************************************************************************)
\* config.a.b... as the specification writes it: the member, or Absent
Member(j, key) == IF j.t = "dict" /\ key \in DOMAIN j.v THEN j.v[key] ELSE Absent

Item(j, i) == IF j.t = "list" /\ i < Len(j.v) THEN j.v[i + 1] ELSE Absent

\* the value attribute of <tag name=name> below the component called comp
Field(tree, comp, tag, name) ==
  tree[Find(tree, Find(tree, RootIdx, "component", comp), tag, name)].value

\* the lines of a message sequence whose text is txt
Count(msgs, txt) == Cardinality({i \in 1..Len(msgs) : msgs[i].text = txt})

Called == pc = "resolver" /\ ret.calls > 0

KeyHit == ret.key \in DOMAIN stats

AliasHit == \E i \in 1..Len(Aliases(ret.key)) : Aliases(ret.key)[i] \in DOMAIN stats

\* C1: get_stat_value returns the table's value of the key when the key is
\* in the table, whatever its aliases hold; else the value of the first
\* alias, in list order, that is in the table; else the default as a float.
C1_FallbackOrder ==
  Called =>
    /\ KeyHit => ret.value = stats[ret.key]
    /\ (~KeyHit /\ AliasHit) =>
         \E i \in 1..Len(Aliases(ret.key)) :
           /\ Aliases(ret.key)[i] \in DOMAIN stats
           /\ \A j \in 1..(i - 1) : Aliases(ret.key)[j] \notin DOMAIN stats
           /\ ret.value = stats[Aliases(ret.key)[i]]
    /\ (~KeyHit /\ ~AliasHit) => ret.value = Norm(ret.default, 0)

\* a direct hit while an alias holds a different value
C1_Witness ==
  /\ Called /\ ret.key = "total_cycles" /\ KeyHit
  /\ "system.cpu.numCycles" \in DOMAIN stats
  /\ stats["system.cpu.numCycles"] # stats["total_cycles"]
  /\ ret.value = stats["total_cycles"]

\* C2: a call prints exactly one warning, naming the key and the default,
\* iff neither the key nor any alias is in the table, and then returns
\* float(default); a direct hit or an alias hit prints nothing.
C2_WarningIffDefault ==
  Called =>
    IF KeyHit \/ AliasHit
    THEN ret.out = <<>>
    ELSE /\ Len(ret.out) = 1
         /\ ret.out[1].key = ret.key
         /\ ret.out[1].default = (IF ret.default = 7 THEN "7" ELSE "0")
         /\ ret.value = (IF ret.default = 7 THEN [m |-> 7, e |-> 0] ELSE [m |-> 0, e |-> 0])

\* resolve(table without the key and its aliases, "total_cycles", 7) = 7.0 with one warning
C2_Witness ==
  /\ Called /\ ret.key = "total_cycles" /\ ret.default = 7
  /\ ~KeyHit /\ ~AliasHit
  /\ Len(ret.out) = 1 /\ ret.value = [m |-> 7, e |-> 0]

\* a token that float() accepts
NumericToken(tok) == ParseFloat(tok).ok

\* a key token followed by a numeric value token
WellFormedLine(line) ==
  /\ Len(line) >= 2
  /\ line[1] # <<>>
  /\ \A i \in 1..Len(line[1]) : line[1][i] \in KeyChars
  /\ NumericToken(line[2])

\* the number a table entry stands for: the float itself, or the float of the stored token
EntryValue(v, entry) == IF v = "custom" THEN entry ELSE ParseFloat(entry).val

\* C3: on a file of well-formed two-column lines either parser returns a
\* table whose keys are exactly the keys of the lines, each mapped to the
\* value of the last line that carries it.
C3_LastWriteWins ==
  (pc \in {"parsed", "looked_up"} /\ \A i \in 1..Len(statsFile.lines) : WellFormedLine(statsFile.lines[i]))
    => /\ DOMAIN stats = {Join(statsFile.lines[i][1]) : i \in 1..Len(statsFile.lines)}
       /\ \A i \in 1..Len(statsFile.lines) :
            (\A j \in (i + 1)..Len(statsFile.lines) : statsFile.lines[j][1] # statsFile.lines[i][1])
              => EntryValue(variant, stats[Join(statsFile.lines[i][1])])
                   = ParseFloat(statsFile.lines[i][2]).val

\* a line with fewer than two tokens, or whose second token is not a number
Malformed(line) == Len(line) < 2 \/ ~NumericToken(line[2])

\* C4: malformed lines add, change and remove nothing: the table of a file
\* is the table of the file without its malformed lines.
C4_MalformedDropped ==
  pc \in {"parsed", "looked_up"} =>
    stats = ParseStatsOf(variant, SelectSeq(statsFile.lines, LAMBDA l : ~Malformed(l)))

Ran == variant = "custom" /\ argc = 3 /\ statsFile.exists /\ configFile.exists /\ pc = "exited"

\* what the Config Parser contract prescribes for a top-level JSON value
Prescribed(j) ==
  IF j = NotJson THEN "JSONDecodeError"
  ELSE IF j.t = "dict" THEN "none"
  ELSE IF j.t = "list"
       THEN IF j.v = <<>> THEN "ValueError"
            ELSE IF j.v[1].t = "dict" THEN "none" ELSE "TypeError"
  ELSE "TypeError"

\* C5: a mapping is used as it is, a non-empty sequence yields its first
\* element, an empty sequence fails with the descriptive error, anything
\* else fails with a type error; only a mapping reaches the field filling.
C5_ConfigOutcome ==
  Ran => /\ Prescribed(configFile.json) = (IF stderr = <<>> THEN "none" ELSE stderr[1].exc)
         /\ stderr = <<>> => config.t = "dict"

Populated(v) == variant = v /\ xml # None

\* C6: number_of_cores is len(config.board.processor.cores), and 1 when
\* that path is absent.
C6_CoreCount ==
  (Populated("custom") /\ config.t = "dict") =>
    LET cores == Member(Member(Member(config, "board"), "processor"), "cores")
    IN  /\ cores = Absent => Field(xml, "system", "param", "number_of_cores") = "1"
        /\ cores.t = "list" =>
             Field(xml, "system", "param", "number_of_cores") = NatStr(Len(cores.v))

\* C7: with N cores the output carries a populated per-core group for
\* every index below N.
C7_PerCore ==
  (Populated("custom") /\ config.t = "dict") =>
    LET cores == Member(Member(Member(config, "board"), "processor"), "cores")
    IN  cores.t = "list" =>
          \A i \in 0..(Len(cores.v) - 1) :
            LET node == Find(xml, RootIdx, "component", "core" \o NatStr(i))
            IN  /\ node # 0
                /\ xml[Find(xml, node, "stat", "total_cycles")].value
                     = Field(xml, "system", "stat", "total_cycles")

\* the count of an optional stats line, 0 when the line is absent
CountOf(opt) == IF opt = NoLine THEN 0 ELSE opt[1]

\* C8: ext_dram_accesses is the DRAM read count plus the L1D writeback
\* count, an absent stat counting as 0, whatever the config holds.
C8_ExtDram ==
  Populated("backup") =>
    \A r \in OptCounts, w \in OptCounts, d \in {NoLine, Some(20)} :
      statsFile = BackupStatsFile(r, w, d) =>
        Field(xml, "main_memory", "param", "ext_dram_accesses") = NatStr(CountOf(r) + CountOf(w))

\* reads = 100, writebacks = 20 gives 120
C8_Witness ==
  /\ Populated("backup")
  /\ \E d \in {NoLine, Some(20)} : statsFile = BackupStatsFile(Some(100), Some(20), d)
  /\ Field(xml, "main_memory", "param", "ext_dram_accesses") = "120"

L1DEntry == Item(Member(Member(Member(config, "board"), "cache_hierarchy"), "l1dcaches"), 0)

L1IEntry == Item(Member(Member(Member(config, "board"), "cache_hierarchy"), "l1icaches"), 0)

TemplateOf(v) == IF v = "custom" THEN mcpat_template ELSE backup_mcpat_template

\* the geometry parameters of the L1I cache: component and names
L1IGeometry(v) ==
  IF v = "custom" THEN {<<"icache", "icache_config">>}
  ELSE {<<"L1Icache", "cache_size">>, <<"L1Icache", "line_size">>, <<"L1Icache", "associativity">>}

L1IWarningText(v) ==
  IF v = "custom" THEN "Warning: Could not find L1I cache config. Using defaults."
  ELSE "Warning: Could not find L1I cache config. Defaulting to 0."

\* C10: without an L1I entry (no board, no cache_hierarchy, no list, no
\* index, or no size/assoc key) the L1I geometry keeps the template default,
\* exactly one L1I warning is printed, and populate returns the XML.
C10_MissingConfigPath ==
  (argc = 3 /\ pc = "exited" /\ config # None /\ config.t = "dict"
     /\ (Member(L1IEntry, "size") = Absent \/ Member(L1IEntry, "assoc") = Absent)
     /\ Member(L1DEntry, "size") # JStr(Str32768B)) =>
    /\ xml # None
    /\ \A g \in L1IGeometry(variant) :
         Field(xml, g[1], "param", g[2]) = Field(TemplateOf(variant), g[1], "param", g[2])
    /\ Count(stdout, L1IWarningText(variant)) = 1

\* the process has ended
Exited == pc = "exited"

\* C11: with an argument count other than two the driver prints the usage
\* message, parses nothing, writes no file and exits with status 1; with two
\* arguments it exits with status 0 on every outcome, so no exception leaves
\* the driver.  The exit status is set when the process ends, not before.
C11_ExitStatus ==
  /\ Exited <=> exitStatus # -1
  /\ (Exited /\ argc # 3) =>
       /\ exitStatus = 1
       /\ stdout = <<UsageMessage(variant)>> /\ stderr = <<>>
       /\ stats = None /\ config = None /\ xml = None
       /\ outFile \in {NoFile, StaleFile}
  /\ (Exited /\ argc = 3) => exitStatus = 0

\* an exception raised during population, caught: status 0
C11_Witness ==
  /\ Exited /\ argc = 3 /\ exitStatus = 0
  /\ config # None /\ xml = None
  /\ Len(stdout \o stderr) >= 1

\* the texts of the messages the except clauses print
ErrorTexts ==
  {ErrorMessage(v, e).text : v \in Variants, e \in {"FileNotFoundError", "ValueError"}}

\* the number of messages of msgs whose text is in txts
CountIn(msgs, txts) == Cardinality({i \in 1..Len(msgs) : msgs[i].text \in txts})

Successes == CountIn(stdout, {SuccessMessage(variant).text})

Errors == CountIn(stdout \o stderr, ErrorTexts)

\* C12: in a run with two arguments each step starts only when the one
\* before it has returned (parse stats, parse config, populate, write,
\* report), a failed step leaves every later step undone (without a stats
\* table the config is never read, without a config nothing is populated,
\* without the XML nothing is written), the success message follows the
\* written file, and the run ends with exactly one success or error message.
C12_StepOrder ==
  argc = 3 =>
    /\ pc \in {"main", "parse_stats"} => stats = None
    /\ pc \in {"main", "parse_stats", "parse_config"} => config = None
    /\ pc \in {"main", "parse_stats", "parse_config", "populate"} => xml = None
    /\ pc \in {"main", "parse_stats", "parse_config", "populate", "write"}
         => outFile \in {NoFile, StaleFile}
    /\ pc \in {"parse_config", "populate", "write", "report"} => stats # None
    /\ pc \in {"populate", "write", "report"} => config # None
    /\ pc \in {"write", "report"} => xml # None
    /\ pc = "report" => outFile = [exists |-> TRUE, tree |-> xml]
    /\ stats = None => config = None
    /\ config = None => xml = None
    /\ xml = None => outFile \in {NoFile, StaleFile}
    /\ ~Exited => (Successes = 0 /\ Errors = 0)
    /\ Exited => /\ Successes + Errors = 1
                 /\ Successes = 1 => (xml # None /\ outFile = [exists |-> TRUE, tree |-> xml])

\* no stats file, a good config file: one error message and the config never read
C12_Witness ==
  /\ Exited /\ argc = 3
  /\ ~statsFile.exists /\ configFile.exists
  /\ stats = None /\ config = None /\ Errors = 1 /\ Successes = 0
  /\ outFile \in {NoFile, StaleFile}

Returned(v) == variant = v /\ xml # None /\ pc \in {"write", "report", "exited"}

\* the access and miss fields of the cache components, each with the
\* canonical stat name of its cache type: <<component, tag, name, stat>>
CacheStatFields(v) ==
  IF v = "custom"
  THEN {<<"icache", "stat", "read_accesses", "icache.ReadReq::total">>,
        <<"icache", "stat", "read_misses", "icache.ReadReq::miss">>,
        <<"dcache", "stat", "read_accesses", "dcache.ReadReq::total">>,
        <<"dcache", "stat", "write_accesses", "dcache.WriteReq::total">>,
        <<"dcache", "stat", "read_misses", "dcache.ReadReq::miss">>,
        <<"dcache", "stat", "write_misses", "dcache.WriteReq::miss">>,
        <<"L20", "stat", "read_accesses", "l2cache.ReadReq::total">>,
        <<"L20", "stat", "write_accesses", "l2cache.WriteReq::total">>,
        <<"L20", "stat", "read_misses", "l2cache.ReadReq::miss">>,
        <<"L20", "stat", "write_misses", "l2cache.WriteReq::miss">>}
  ELSE {<<c[1], "param", f[1], "board.cache_hierarchy." \o c[2] \o f[2]>> :
          c \in {<<"L1Icache", "l1icaches">>, <<"L1Dcache", "l1dcaches">>,
                 <<"L2cache", "l2cache">>},
          f \in {<<"read_accesses", ".ReadReq.accesses::total">>,
                 <<"write_accesses", ".WriteReq.accesses::total">>,
                 <<"total_reads", ".ReadReq.accesses::total">>,
                 <<"total_writes", ".WriteReq.accesses::total">>,
                 <<"total_accesses", ".overallAccesses::total">>}}

\* str(int(resolve(stats, key, 0)))
Resolved(v, key) == IntStr(IntOfFloat(GetOf(v, stats, key, 0).value))

\* C14: after populate every read/write access and miss field of the L1I,
\* L1D and L2 cache components holds the resolver's value for the stat of
\* that cache (the table's value, 0 by default), never the placeholder.
C14_CacheStats ==
  (\E v \in Variants : Returned(v)) =>
    \A f \in CacheStatFields(variant) :
      Field(xml, f[1], f[2], f[3]) = Resolved(variant, f[4])

\* the elements of a tree without their value attributes: tag, name, id and
\* parent of each, in document order
Shape(tree) == [i \in 1..Len(tree) |-> [tree[i] EXCEPT !.value = ""]]

\* C15: whenever create_mcpat_xml returns, the tree has the elements of the
\* template, in the same order and nesting and with the same name and id;
\* only value attributes differ.
C15_StructurePreserved ==
  xml # None => Shape(xml) = Shape(TemplateOf(variant))

\* two cores in the config: values were replaced, the elements are the template's
C15_Witness ==
  /\ Returned("custom")
  /\ config.t = "dict"
  /\ Member(Member(Member(config, "board"), "processor"), "cores") = JList(<<EmptyDict, EmptyDict>>)
  /\ Field(xml, "system", "param", "number_of_cores") = "2"
  /\ xml # mcpat_template
  /\ Shape(xml) = Shape(mcpat_template)

\* C16: from the moment parse_stats has returned, the StatTable is the table
\* the parser built from the stats file, and the config is the value
\* parse_config returned: no resolver call (direct, alias or default) and no
\* step of populate adds, removes or changes an entry of either.
C16_InputsReadOnly ==
  /\ stats # None => stats = ParseStatsOf(variant, statsFile.lines)
  /\ config # None => config = LoadConfig(variant, configFile).val

\* a finished populate that resolved total_cycles through an alias and
\* committedInsts through its default
C16_Witness ==
  /\ Returned("custom") /\ Exited
  /\ "total_cycles" \notin DOMAIN stats /\ "system.cpu.numCycles" \in DOMAIN stats
  /\ Field(xml, "system", "stat", "total_cycles") = "20"
  /\ "committedInsts" \notin DOMAIN stats
  /\ Count(stdout, StatWarning("committedInsts", 0).text) >= 1
  /\ config = FullBoard

\* the byte count a size entry stands for: the integer, or the digits of "32768B"
SizeBytes(size) == IF size = JStr(Str32768B) THEN 32768 ELSE size.v

\* the comma-joined 8-tuple S, L, A, 1, 10, 10, L, m
GeometryString(S, L, A, m) ==
  NatStr(S) \o "," \o NatStr(L) \o "," \o NatStr(A) \o ",1,10,10," \o NatStr(L) \o "," \o m

\* the L1 lists of the config with the component, parameter and mode flag of each
L1Kinds == {<<"l1icaches", "icache", "icache_config", "0">>,
            <<"l1dcaches", "dcache", "dcache_config", "1">>}

\* the value of <param name=k[3]> of the k[2] cache of core i, "" without such an element
GeometryField(tree, i, k) ==
  LET core == Find(tree, RootIdx, "component", "core" \o NatStr(i))
      node == IF core = 0 THEN 0 ELSE Find(tree, core, "component", k[2])
      p    == IF node = 0 THEN 0 ELSE Find(tree, node, "param", k[3])
  IN  IF p = 0 THEN "" ELSE tree[p].value

\* the geometry claimed for the indices in I: for a core index i of I whose
\* entry i of an L1 list has size S and assoc A, the field is S,L,A,1,10,10,L,m
GeometryAt(I) ==
  (Returned("custom") /\ config.t = "dict") =>
    LET board == Member(config, "board")
        cores == Member(Member(board, "processor"), "cores")
        cls   == Member(board, "cache_line_size")
        L     == IF cls = Absent THEN 64 ELSE cls.v
    IN  cores.t = "list" =>
          \A i \in (0..(Len(cores.v) - 1)) \cap I, k \in L1Kinds :
            LET e == Item(Member(Member(board, "cache_hierarchy"), k[1]), i)
            IN  (Member(e, "size") # Absent /\ Member(e, "assoc") # Absent) =>
                  GeometryField(xml, i, k)
                    = GeometryString(SizeBytes(Member(e, "size")), L, Member(e, "assoc").v, k[4])

\* C17: for every core index i whose L1I (L1D) entry i has size S and assoc
\* A, icache_config (dcache_config) of core i is "S,L,A,1,10,10,L,0" (",1"),
\* L the board's cache_line_size or 64, and "32768B" counts as 32768.
C17_L1GeometryString == GeometryAt(0..MaxCores)

\* C18: mcpat_output.xml is created, truncated or changed only by the write
\* step, which runs after create_mcpat_xml has returned the XML; as long as
\* there is no XML (parsing or populate failed, or has not run) every step
\* leaves the file as the earlier run left it.
C18_OutputOnlyOnSuccess ==
  [][/\ outFile' # outFile => (pc = "write" /\ stats # None /\ config # None /\ xml # None)
     /\ xml' = None => outFile' = outFile]_vars

\* populate failed and the file of an earlier run is still there
C18_Witness ==
  /\ Exited /\ argc = 3
  /\ config # None /\ xml = None
  /\ outFile = StaleFile

\* config.board.processor.cores, Absent when the path is
CoresOf(cfg) == Member(Member(Member(cfg, "board"), "processor"), "cores")

\* custom_converter.py is past create_mcpat_xml, called on a mapping
PastPopulate ==
  /\ variant = "custom" /\ argc = 3
  /\ config # None /\ config.t = "dict"
  /\ pc \in {"write", "report", "exited"}

\* the core0 element of the template and the elements below it
Core0Elements ==
  LET core0 == Find(mcpat_template, RootIdx, "component", "core0")
  IN  {i \in 1..Len(mcpat_template) : i = core0 \/ IsDescendant(mcpat_template, i, core0)}

\* C19: in custom_converter.py an empty or absent board.processor.cores
\* gives number_of_cores = 0: core0 with its icache and dcache keeps every
\* template value and no L1 warning is printed, while the system fields and
\* the L2 access fields are written; cores present but not a list gives 1.
C19_ZeroCores ==
  PastPopulate =>
    /\ CoresOf(config) \in {Absent, JList(<<>>)} =>
         /\ xml # None
         /\ Field(xml, "system", "param", "number_of_cores") = "0"
         /\ \A i \in Core0Elements : xml[i] = mcpat_template[i]
         /\ Count(stdout, L1Warning("L1I").text) = 0
         /\ Count(stdout, L1Warning("L1D").text) = 0
         /\ Field(xml, "system", "stat", "total_cycles") = Resolved("custom", "total_cycles")
         /\ Field(xml, "system", "stat", "busy_cycles") = Resolved("custom", "total_cycles")
         /\ Field(xml, "system", "param", "target_core_clockrate") = "1000.0"
         /\ Field(xml, "L20", "stat", "read_accesses")
              = Resolved("custom", "system.l2cache.ReadReq::total")
         /\ Field(xml, "L20", "stat", "write_accesses")
              = Resolved("custom", "system.l2cache.WriteReq::total")
    /\ (CoresOf(config) # Absent /\ CoresOf(config).t # "list") =>
         /\ xml # None
         /\ Field(xml, "system", "param", "number_of_cores") = "1"

\* no cores key, L1 lists without a usable entry, 100 cycles in the stats:
\* the cycles reach the system element and core0 is the template's
C19_Witness ==
  /\ PastPopulate /\ xml # None
  /\ CoresOf(config) = Absent
  /\ Member(Member(Member(config, "board"), "cache_hierarchy"), "l1icaches") = JList(<<>>)
  /\ Field(xml, "system", "param", "number_of_cores") = "0"
  /\ Field(xml, "system", "stat", "total_cycles") = "100"
  /\ Field(xml, "core0", "stat", "total_cycles") = Field(mcpat_template, "core0", "stat", "total_cycles")
  /\ Field(xml, "core0", "stat", "total_cycles") # "100"
  /\ Field(xml, "L20", "stat", "read_accesses") = "0"

\* the cache components of backup.py: element, config key, whether the key holds a list
BackupCaches ==
  {<<"L1Icache", "l1icaches", TRUE>>, <<"L1Dcache", "l1dcaches", TRUE>>,
   <<"L2cache", "l2cache", FALSE>>}

\* the config entry a cache component is filled from, Absent when there is none
BackupEntry(cfg, c) ==
  LET h == Member(Member(cfg, "board"), "cache_hierarchy")
  IN  IF c[3] THEN Item(Member(h, c[2]), 0) ELSE Member(h, c[2])

\* size / 1024 as Python prints it, for the sizes of the model
KBString(size) ==
  IF size = 32768 THEN "32.0" ELSE IF size = 1000 THEN "0.9765625"
  ELSE IF size = 1048576 THEN "1024.0" ELSE "?"

\* C20: in backup.py a cache with a config entry (size and assoc) has its
\* three geometry fields and its three statistic fields written; a cache
\* without one keeps the template's 0 in all six, whatever the stats hold.
C20_StatsWithGeometry ==
  Returned("backup") =>
    \A c \in BackupCaches :
      LET e   == BackupEntry(config, c)
          cls == Member(Member(config, "board"), "cache_line_size")
          key == "board.cache_hierarchy." \o c[2]
      IN  IF Member(e, "size") # Absent /\ Member(e, "assoc") # Absent
          THEN /\ Field(xml, c[1], "param", "cache_size") = KBString(Member(e, "size").v)
               /\ Field(xml, c[1], "param", "associativity") = NatStr(Member(e, "assoc").v)
               /\ Field(xml, c[1], "param", "line_size") = (IF cls = Absent THEN "64" ELSE NatStr(cls.v))
               /\ Field(xml, c[1], "param", "total_accesses")
                    = Resolved("backup", key \o ".overallAccesses::total")
               /\ Field(xml, c[1], "param", "total_reads")
                    = Resolved("backup", key \o ".ReadReq.accesses::total")
               /\ Field(xml, c[1], "param", "total_writes")
                    = Resolved("backup", key \o ".WriteReq.accesses::total")
          ELSE \A f \in {"cache_size", "associativity", "line_size",
                          "total_accesses", "total_reads", "total_writes"} :
                 Field(xml, c[1], "param", f) = "0"

\* 20 L1D accesses in the stats and no L1D entry in the config: total_accesses
\* stays 0, while the L1I cache, which has an entry, is filled
C20_Witness ==
  /\ Returned("backup")
  /\ BackupEntry(config, <<"L1Dcache", "l1dcaches", TRUE>>) = Absent
  /\ Resolved("backup", "board.cache_hierarchy.l1dcaches.overallAccesses::total") = "20"
  /\ Field(xml, "L1Dcache", "param", "total_accesses") = "0"
  /\ Member(BackupEntry(config, <<"L1Icache", "l1icaches", TRUE>>), "size") = JInt(32768)
  /\ Field(xml, "L1Icache", "param", "cache_size") = "32.0"

====
